---- MODULE Spec2Model ----
(***************************************************************************)
(* Version resolution and dependency completion of the mod list            *)
(* (src/src/app/page.tsx): runPool, resolveItem, resolveDependencyTitles,  *)
(* getLatestSupportedVersion, handleResolve and the list handlers.         *)
(*                                                                         *)
(* Status strings of the source are written in English:                    *)
(*   "pending" = 待解析, "resolvable" = 可更新, "missing" = 缺失,          *)
(*   "paused" = 暫停, "custom" = 自訂; currentVersion "unknown" = 未知.    *)
(* A JavaScript undefined is Undefined; an array hole or an absent value   *)
(* of record type is the empty tuple <<>>, a present one is <<v>>.         *)
(***************************************************************************)
EXTENDS Integers, Sequences, FiniteSets, TLC

VARIABLES
    cartItems,      \* useState cartItems: the list, a sequence of CartItem
    selectedMods,   \* useState selectedMods: set of ids
    targetVersion,  \* useState targetVersion
    loader,         \* useState loader (a label such as "Fabric")
    isResolving,    \* useState isResolving
    notice,         \* useState notice, by kind of message
    pass,           \* the running handleResolve call: its closure and locals
    pool,           \* the running runPool call: list, queue, results, runners
    task,           \* per runner: the worker call it awaits
    registry,       \* what the registry relay answers, fixed per behaviour
    passesLeft,     \* handleResolve calls still allowed: <<n>>, or <<>> for any number
    opsLeft,        \* user operations still allowed (bound)
    failuresLeft,   \* failing responses still allowed (bound)
    store,          \* the share-code store: the file, or the share_codes table
    reqs,           \* the POST /api/share-code calls, in order of arrival
    variant,        \* the share-code route in service, fixed per behaviour
    postsLeft,      \* POST calls still allowed (bound)
    collisionsLeft, \* generated codes that collide still allowed: <<n>>, or <<>> for any number
    kv,             \* the key-value database of src/unnamed/part_001
    saves,          \* the saveShareCode calls on the key-value database, in order
    exported,       \* the file handleDownloadSelected last offered: <<filenames>>, or <<>>
    adds,           \* the handleAddItem calls awaiting fetchProjectInfoById, in order
    share,          \* useState currentShareCode, currentShareCodeHash; the executeGenerateCode call
    relay,          \* the registry relay: apiCache, the clock, its calls and responses
    search,         \* useState searchQuery, searchResults; the search timer and its fetches
    load            \* the loadMetadata effect, isTargetLockedRef, the handleLoadByCode call

vars == <<cartItems, selectedMods, targetVersion, loader, isResolving, notice,
          pass, pool, task, registry, passesLeft, opsLeft, failuresLeft,
          store, reqs, variant, postsLeft, collisionsLeft, kv, saves,
          exported, adds, share, relay, search, load>>

kvVars == <<kv, saves>>

\* The page's state besides the list and its resolution pass.
\* The relay and the page's effects.
relayVars == <<relay, search, load>>

pageVars == <<exported, adds, share, relayVars>>

\* What the resolution pass and the list handlers leave alone.
shareVars == <<store, reqs, variant, postsLeft, collisionsLeft, kv, saves, pageVars>>

listVars == <<cartItems, selectedMods, targetVersion, loader, isResolving, notice,
              pass, pool, task, registry, passesLeft, opsLeft, failuresLeft>>

clientVars == <<cartItems, selectedMods, targetVersion, loader, isResolving, notice>>

Undefined == "undefined"

Range(s) == {s[i] : i \in 1..Len(s)}

\* ------------------------------------------------------------------ bounds

MaxLen == 3        \* longest list handed to runPool on its own
MaxLimit == 3      \* largest limit handed to runPool on its own
MaxOps == 1        \* user operations per behaviour
MaxItems == 2      \* entries of the list a behaviour starts from
MaxFailures == 2   \* failing registry responses per behaviour
MaxVersions == 2   \* versions of the project resolved on its own
MaxDate == 2       \* latest publish date of such a version (0: no date)

\* ------------------------------------------------------------------ runPool

\* The worker passed to runPool on its own: any async function of the value.
Worker(v) == <<"worked", v>>

\* queue.shift(): the queue without its head.
QueueShiftPeek(q) == q
QueueShift(q) == Tail(q)

\* results[next.index] = resolved
StoreResultPush(results, index, resolved) ==
    LET free == {i \in 1..Len(results) : results[i] = <<>>}
        first == CHOOSE i \in free : \A j \in free : i <= j
    IN  [results EXCEPT ![first] = <<resolved>>]
StoreResult(results, index, resolved) ==
    [results EXCEPT ![index] = <<resolved>>]

\* const results = new Array(list.length); const queue = list.map(...)
PoolNew(list, limit, worker) ==
    [ list    |-> list,
      limit   |-> limit,
      worker  |-> worker,
      queue   |-> [i \in 1..Len(list) |-> i],
      results |-> [i \in 1..Len(list) |-> <<>>],
      runners |-> [r \in 1..limit |-> [pc |-> "new", next |-> 0]],
      calls   |-> [i \in 1..Len(list) |-> 0],   \* worker calls per index (history)
      order   |-> <<>>,                        \* indices in completion order (history)
      rejected |-> FALSE ]

NoPool == [ list |-> <<>>, limit |-> 0, worker |-> "none", queue |-> <<>>,
            results |-> <<>>, runners |-> <<>>, calls |-> <<>>, order |-> <<>>,
            rejected |-> FALSE ]

\* One turn of a runner's loop up to its await: while (queue.length) { next =
\* queue.shift(); ... await worker(next.value) }, or the end of the runner.
RunnerLoop(p, r) ==
    IF Len(p.queue) > 0
    THEN [p EXCEPT !.queue = QueueShift(@),
                   !.runners[r] = [pc |-> "await", next |-> Head(p.queue)],
                   !.calls[Head(p.queue)] = @ + 1]
    ELSE [p EXCEPT !.runners[r] = [pc |-> "done", next |-> 0]]

\* Array.from({ length: limit }, async () => ...): the runners start one after
\* the other, each running up to its first await.
RECURSIVE StartRunners(_, _)
StartRunners(p, r) ==
    IF r > p.limit THEN p ELSE StartRunners(RunnerLoop(p, r), r + 1)

PoolStart(list, limit, worker) == StartRunners(PoolNew(list, limit, worker), 1)

\* Promise.all(runners) has resolved.
PoolAllDone(p) == \A r \in 1..p.limit : p.runners[r].pc = "done"

\* The array runPool returns.
PoolReturn(p) == [i \in 1..Len(p.results) |-> p.results[i][1]]

\* ------------------------------------------------------------------ helpers

\* dedupe(list) = Array.from(new Set(list)): first occurrences, in order.
RECURSIVE Dedupe(_)
Dedupe(s) ==
    IF s = <<>> THEN <<>>
    ELSE LET front == Dedupe(SubSeq(s, 1, Len(s) - 1))
             last == s[Len(s)]
         IN  IF last \in Range(front) THEN front ELSE Append(front, last)

\* toLoaderId(label): label.toLowerCase().
toLoaderId(label) ==
    CASE label = "Fabric" -> "fabric"
      [] label = "Forge" -> "forge"
      [] label = "NeoForge" -> "neoforge"
      [] label = "Quilt" -> "quilt"
      [] OTHER -> label

\* [...versions].sort((a, b) => (b.date_published ?? "").localeCompare(
\* a.date_published ?? "")): a stable sort, latest date first. Dates are
\* numbers, 0 standing for an absent date (the empty string sorts first).
RECURSIVE InsertByDateLast(_, _)
InsertByDateLast(sorted, v) ==
    IF sorted = <<>> THEN <<v>>
    ELSE IF Head(sorted).date_published > v.date_published
         THEN <<Head(sorted)>> \o InsertByDateLast(Tail(sorted), v)
         ELSE <<v>> \o sorted
RECURSIVE InsertByDate(_, _)
InsertByDate(sorted, v) ==
    IF sorted = <<>> THEN <<v>>
    ELSE IF Head(sorted).date_published >= v.date_published
         THEN <<Head(sorted)>> \o InsertByDate(Tail(sorted), v)
         ELSE <<v>> \o sorted

RECURSIVE SortByDateDesc(_)
SortByDateDesc(versions) ==
    IF versions = <<>> THEN <<>>
    ELSE InsertByDate(SortByDateDesc(SubSeq(versions, 1, Len(versions) - 1)),
                      versions[Len(versions)])

getLatestSupportedVersion(versions) ==
    IF Len(versions) = 0 THEN Undefined
    ELSE LET latest == SortByDateDesc(versions)[1]
         IN  IF Len(latest.game_versions) > 0 THEN latest.game_versions[1]
             ELSE Undefined

\* ------------------------------------------------------------------ registry

\* GET /api/modrinth?type=project: the project record, or <<>> for a project
\* the registry does not know (a non-OK response).
RegistryProject(id) ==
    IF id \in DOMAIN registry THEN <<registry[id]>> ELSE <<>>

\* GET /api/modrinth?type=versions&gameVersion=..&loader=..: the versions of
\* the project built for the game version and the loader, in registry order.
RegistryVersions(id, gameVersion, loaderId) ==
    SelectSeq(registry[id].versions,
              LAMBDA v : gameVersion \in Range(v.game_versions)
                         /\ loaderId \in v.loaders)

\* GET /api/modrinth?type=versions&projectId=..: every version.
RegistryAllVersions(id) == registry[id].versions

\* ------------------------------------------------------------------ resolveItem

\* The required ids resolveDependencyTitles looks up, in order.
RequiredIds(deps) ==
    LET req == SelectSeq(deps, LAMBDA d : d.dependency_type = "required"
                                          /\ d.project_id # Undefined)
    IN  Dedupe([i \in 1..Len(req) |-> req[i].project_id])

\* versions[0].files?.[0]?.filename
FirstFilename(version) ==
    IF Len(version.files) > 0 THEN version.files[1].filename ELSE Undefined

NoTask == [stage |-> "none"]

\* resolveItem up to its first await.
ResolveStartNoPause(item) ==
    IF item.isCustom \/ item.source = "custom"
    THEN [stage |-> "ready", item |-> item, path |-> "custom",
          result |-> [item EXCEPT !.status = "custom", !.targetVersion = "-",
                                  !.currentVersion = "-", !.filename = Undefined]]
    ELSE [stage |-> "project", item |-> item, path |-> "registry"]
ResolveStartFlagOnly(item) ==
    IF item.paused THEN [stage |-> "ready", item |-> item, result |-> item, path |-> "paused"]
    ELSE IF item.isCustom
    THEN [stage |-> "ready", item |-> item, path |-> "custom",
          result |-> [item EXCEPT !.status = "custom", !.targetVersion = "-",
                                  !.currentVersion = "-", !.filename = Undefined]]
    ELSE [stage |-> "project", item |-> item, path |-> "registry"]
ResolveStart(item) ==
    IF item.paused THEN [stage |-> "ready", item |-> item, result |-> item, path |-> "paused"]
    ELSE IF item.isCustom \/ item.source = "custom"
    THEN [stage |-> "ready", item |-> item, path |-> "custom",
          result |-> [item EXCEPT !.status = "custom", !.targetVersion = "-",
                                  !.currentVersion = "-", !.filename = Undefined]]
    ELSE [stage |-> "project", item |-> item, path |-> "registry"]

\* fetchProjectInfoById has answered: info is <<project>> or <<>> (a non-OK
\* response or a caught error). baseItem is built, the filtered query issued.
AfterProject(t, info) ==
    LET item == t.item
        title == IF info # <<>> /\ info[1].title # Undefined THEN info[1].title
                 ELSE item.title
        cur == IF info # <<>> /\ Len(info[1].game_versions) > 0
               THEN info[1].game_versions[1] ELSE Undefined
        base == [item EXCEPT !.title = title,
                             !.currentVersion =
                                 IF item.currentVersion = "unknown" /\ cur # Undefined
                                 THEN cur ELSE item.currentVersion]
    IN  [stage |-> "versions", item |-> item, base |-> base, path |-> "registry"]

\* The result once the dependency titles are in.
ResolvableResultOnce(t, tv) ==
    [t.base EXCEPT !.targetVersion = tv, !.status = "resolvable",
                   !.lastSupportedVersion = Undefined,
                   !.filename = IF t.item.filename = t.filename THEN Undefined
                                ELSE t.filename,
                   !.dependencies = [i \in 1..Len(t.required) |->
                        [id |-> t.required[i], title |-> t.titles[t.required[i]]]]]
ResolvableResult(t, tv) ==
    [t.base EXCEPT !.targetVersion = tv, !.status = "resolvable",
                   !.lastSupportedVersion = Undefined, !.filename = t.filename,
                   !.dependencies = [i \in 1..Len(t.required) |->
                        [id |-> t.required[i], title |-> t.titles[t.required[i]]]]]

\* The filtered query has answered OK with at least one version.
AfterVersionsHit(t, versions, tv) ==
    LET required == RequiredIds(versions[1].dependencies)
        t1 == [stage |-> "titles", item |-> t.item, base |-> t.base,
               path |-> "hit", filename |-> FirstFilename(versions[1]),
               required |-> required, pending |-> Range(required),
               titles |-> [id \in Range(required) |-> id]]
    IN  IF required = <<>>
        THEN [t1 EXCEPT !.stage = "ready"] @@ [result |-> ResolvableResult(t1, tv)]
        ELSE t1

\* The filtered query answered non-OK, or OK with no version: the unfiltered
\* query is issued.
AfterVersionsMiss(t, how) ==
    [stage |-> "fallback", item |-> t.item, base |-> t.base, path |-> how]

\* One project lookup of resolveDependencyTitles has answered with a title.
AfterTitle(t, id, title, tv) ==
    LET t1 == [t EXCEPT !.pending = @ \ {id}, !.titles[id] = title]
    IN  IF t1.pending = {}
        THEN [t1 EXCEPT !.stage = "ready"] @@ [result |-> ResolvableResult(t1, tv)]
        ELSE t1

\* The unfiltered query answered OK.
AfterFallbackOk(t, versions) ==
    [stage |-> "ready", item |-> t.item, base |-> t.base,
     path |-> IF t.path = "empty" THEN "empty-fallback" ELSE "notok-fallback",
     fallback |-> versions,
     result |-> [t.base EXCEPT !.targetVersion = "-", !.status = "missing",
                               !.lastSupportedVersion = getLatestSupportedVersion(versions),
                               !.filename = Undefined]]

\* The unfiltered query answered non-OK.
AfterFallbackNotOk(t) ==
    [stage |-> "ready", item |-> t.item, base |-> t.base,
     path |-> IF t.path = "empty" THEN "empty-nofallback" ELSE "notok-nofallback",
     result |-> [t.base EXCEPT !.targetVersion = "-", !.status = "missing",
                               !.filename = Undefined]]

\* Registry requests a worker call has in flight.
TaskInFlight(t) ==
    CASE t.stage \in {"project", "versions", "fallback"} -> 1
      [] t.stage = "titles" -> Cardinality(t.pending)
      [] OTHER -> 0

\* Registry requests in flight: those of every worker call a runner awaits.
RECURSIVE SumInFlight(_)
SumInFlight(r) ==
    IF r = 0 THEN 0 ELSE TaskInFlight(task[r]) + SumInFlight(r - 1)

InFlight == SumInFlight(Len(task))

\* ------------------------------------------------------------------ handleResolve

\* runPool(cartItems, 10, resolveItem)
ResolveLimit == 10

NoPass == [phase |-> "none"]

\* The entry pushed for a dependency not yet in the list.
NewDependencyItem(dep, tv) ==
    [ id |-> dep.id, title |-> dep.title, source |-> "Modrinth",
      currentVersion |-> "unknown", targetVersion |-> tv, status |-> "pending",
      paused |-> FALSE, lastSupportedVersion |-> Undefined, filename |-> Undefined,
      dependencies |-> <<>>, isDependency |-> TRUE, isCustom |-> FALSE ]

\* dependencySelectionMap after one dependency that passed the guard.
SelectionEntry(sel, depId, isCurrentSelected) ==
    IF depId \in DOMAIN sel
    THEN (depId :> (sel[depId] \/ isCurrentSelected)) @@ sel
    ELSE (depId :> isCurrentSelected) @@ sel

\* if (existingIds.has(dep.id) || dependencyIds.has(dep.id)) return;
SkipDependencyNoDedup(existingIds, dependencyIds, depId) ==
    depId \in existingIds
SkipDependency(existingIds, dependencyIds, depId) ==
    depId \in existingIds \/ depId \in dependencyIds

\* The body of item.dependencies?.forEach((dep) => ...), for one dep.
ExpandStep(acc, item, dep, existingIds, selected, tv) ==
    IF SkipDependency(existingIds, acc.ids, dep.id) THEN acc
    ELSE [ ids   |-> acc.ids \cup {dep.id},
           items |-> Append(acc.items, NewDependencyItem(dep, tv)),
           sel   |-> SelectionEntry(acc.sel, dep.id, item.id \in selected) ]

RECURSIVE ExpandDeps(_, _, _, _, _, _)
ExpandDeps(acc, item, j, existingIds, selected, tv) ==
    IF j > Len(item.dependencies) THEN acc
    ELSE ExpandDeps(ExpandStep(acc, item, item.dependencies[j], existingIds, selected, tv),
                    item, j + 1, existingIds, selected, tv)

\* resolved.forEach((item) => ...)
RECURSIVE ExpandItems(_, _, _, _, _, _)
ExpandItems(acc, resolved, i, existingIds, selected, tv) ==
    IF i > Len(resolved) THEN acc
    ELSE ExpandItems(ExpandDeps(acc, resolved[i], 1, existingIds, selected, tv),
                     resolved, i + 1, existingIds, selected, tv)

\* dependencyItems, dependencyIds and dependencySelectionMap of a pass.
Expansion(resolved, items, selected, tv) ==
    ExpandItems([ids |-> {}, items |-> <<>>, sel |-> <<>>], resolved, 1,
                {items[i].id : i \in 1..Len(items)}, selected, tv)

\* updatedSelectedMods
UpdatedSelectedMods(selected, sel) ==
    selected \cup {id \in DOMAIN sel : sel[id]}

\* The worker call a runner starts on a claimed value.
WorkerStart(worker, v) ==
    IF worker = "resolveItem" THEN ResolveStart(v)
    ELSE [stage |-> "work", item |-> v]

\* The worker calls in flight once the runners of a new pool have started.
StartTasks(p) ==
    [r \in 1..p.limit |->
        IF p.runners[r].pc = "await" THEN WorkerStart(p.worker, p.list[p.runners[r].next])
        ELSE NoTask]

\* resolvedDeps = await runPool(dependencyItems, 10, resolveItem)
DependencyResultsUnresolved(p, expansion) == expansion.items
DependencyResults(p, expansion) == PoolReturn(p)

\* [...resolved, ...resolvedDeps]
MergedTransitive(resolved, resolvedDeps) ==
    LET have == {resolved[i].id : i \in 1..Len(resolved)}
                 \cup {resolvedDeps[i].id : i \in 1..Len(resolvedDeps)}
        deeper == ExpandItems([ids |-> {}, items |-> <<>>, sel |-> <<>>],
                              resolvedDeps, 1, have, {}, pass.target)
    IN  resolved \o resolvedDeps \o deeper.items
Merged(resolved, resolvedDeps) == resolved \o resolvedDeps

\* <button onClick={handleResolve} disabled={isResolving}>: handleResolve has
\* no caller but this button.
ResolveButtonAlwaysEnabled == FALSE
ResolveButtonDisabled == isResolving

\* handleResolve up to its first await.
HandleResolve ==
    /\ ~ResolveButtonDisabled
    /\ IF passesLeft = <<>> THEN TRUE ELSE passesLeft[1] > 0
    /\ passesLeft' = IF passesLeft = <<>> THEN <<>> ELSE <<passesLeft[1] - 1>>
    /\ IF Len(cartItems) = 0
       THEN /\ notice' = "empty"
            /\ UNCHANGED <<isResolving, pass, pool, task>>
       ELSE /\ isResolving' = TRUE
            /\ notice' = "resolving"
            /\ pass' = [ phase |-> "main", items |-> cartItems, selected |-> selectedMods,
                         target |-> targetVersion, loader |-> loader ]
            /\ pool' = PoolStart(cartItems, ResolveLimit, "resolveItem")
            /\ task' = StartTasks(pool')
    /\ UNCHANGED <<cartItems, selectedMods, targetVersion, loader, registry, shareVars, opsLeft,
                   failuresLeft>>

\* A worker call of handleResolve's pool rejected: runPool rejects, the catch
\* and finally blocks run. The other runners go on in the background; nothing
\* they do reaches the state, and the model drops them.
PassFailsDiscard(request) ==
    /\ notice' = "failed"
    /\ isResolving' = FALSE
    /\ pass' = [pass EXCEPT !.phase = "failed"] @@ [failedBy |-> request]
    /\ pool' = NoPool
    /\ task' = <<>>
    /\ cartItems' = <<>>
    /\ UNCHANGED <<selectedMods, targetVersion, loader>>
PassFails(request) ==
    /\ notice' = "failed"
    /\ isResolving' = FALSE
    /\ pass' = [pass EXCEPT !.phase = "failed"] @@ [failedBy |-> request]
    /\ pool' = NoPool
    /\ task' = <<>>
    /\ UNCHANGED <<cartItems, selectedMods, targetVersion, loader>>

Awaiting(r, stage) ==
    /\ pool.worker = "resolveItem"
    /\ r \in 1..pool.limit
    /\ pool.runners[r].pc = "await"
    /\ task[r].stage = stage

\* fetchProjectInfoById answers: the registry's answer, or a failure.
ProjectResponse(r) ==
    /\ Awaiting(r, "project")
    /\ \/ /\ task' = [task EXCEPT ![r] = AfterProject(@, RegistryProject(@.item.id))]
          /\ UNCHANGED failuresLeft
       \/ /\ failuresLeft > 0
          /\ failuresLeft' = failuresLeft - 1
          /\ task' = [task EXCEPT ![r] = AfterProject(@, <<>>)]
    /\ UNCHANGED <<clientVars, pass, pool, registry, shareVars, passesLeft, opsLeft>>

\* The filtered versions query answers.
VersionsResponse(r) ==
    /\ Awaiting(r, "versions")
    /\ LET id == task[r].item.id
           found == id \in DOMAIN registry
           versions == IF found
                       THEN RegistryVersions(id, pass.target, toLoaderId(pass.loader))
                       ELSE <<>>
       IN  \/ /\ found /\ Len(versions) > 0
              /\ task' = [task EXCEPT ![r] = AfterVersionsHit(@, versions, pass.target)]
              /\ UNCHANGED <<failuresLeft, clientVars, pass, pool>>
           \/ /\ found /\ Len(versions) = 0
              /\ task' = [task EXCEPT ![r] = AfterVersionsMiss(@, "empty")]
              /\ UNCHANGED <<failuresLeft, clientVars, pass, pool>>
           \/ /\ ~found
              /\ task' = [task EXCEPT ![r] = AfterVersionsMiss(@, "notok")]
              /\ UNCHANGED <<failuresLeft, clientVars, pass, pool>>
           \/ /\ failuresLeft > 0
              /\ failuresLeft' = failuresLeft - 1
              /\ task' = [task EXCEPT ![r] = AfterVersionsMiss(@, "notok")]
              /\ UNCHANGED <<clientVars, pass, pool>>
           \/ /\ failuresLeft > 0
              /\ failuresLeft' = failuresLeft - 1
              /\ PassFails("versions")
    /\ UNCHANGED <<registry, shareVars, passesLeft, opsLeft>>

\* One project lookup of resolveDependencyTitles answers.
TitleResponse(r) ==
    /\ Awaiting(r, "titles")
    /\ \E id \in task[r].pending :
        LET info == RegistryProject(id)
            title == IF info # <<>> /\ info[1].title # Undefined THEN info[1].title ELSE id
        IN  \/ /\ task' = [task EXCEPT ![r] = AfterTitle(@, id, title, pass.target)]
               /\ UNCHANGED failuresLeft
            \/ /\ failuresLeft > 0
               /\ failuresLeft' = failuresLeft - 1
               /\ task' = [task EXCEPT ![r] = AfterTitle(@, id, id, pass.target)]
    /\ UNCHANGED <<clientVars, pass, pool, registry, shareVars, passesLeft, opsLeft>>

\* The unfiltered versions query answers.
FallbackResponse(r) ==
    /\ Awaiting(r, "fallback")
    /\ LET id == task[r].item.id
           found == id \in DOMAIN registry
       IN  \/ /\ found
              /\ task' = [task EXCEPT ![r] = AfterFallbackOk(@, RegistryAllVersions(id))]
              /\ UNCHANGED <<failuresLeft, clientVars, pass, pool>>
           \/ /\ ~found
              /\ task' = [task EXCEPT ![r] = AfterFallbackNotOk(@)]
              /\ UNCHANGED <<failuresLeft, clientVars, pass, pool>>
           \/ /\ failuresLeft > 0
              /\ failuresLeft' = failuresLeft - 1
              /\ task' = [task EXCEPT ![r] = AfterFallbackNotOk(@)]
              /\ UNCHANGED <<clientVars, pass, pool>>
           \/ /\ failuresLeft > 0
              /\ failuresLeft' = failuresLeft - 1
              /\ PassFails("fallback")
    /\ UNCHANGED <<registry, shareVars, passesLeft, opsLeft>>

\* The worker call a runner awaits has resolved: the runner stores the result
\* and goes round its loop.
RunnerResume(r) ==
    /\ r \in 1..pool.limit
    /\ pool.runners[r].pc = "await"
    /\ task[r].stage = "ready"
    /\ LET stored == [pool EXCEPT !.results =
                          StoreResult(@, pool.runners[r].next, task[r].result),
                                  !.order = Append(@, pool.runners[r].next)]
           p2 == RunnerLoop(stored, r)
       IN  /\ pool' = p2
           /\ task' = [task EXCEPT ![r] =
                          IF p2.runners[r].pc = "await"
                          THEN WorkerStart(p2.worker, p2.list[p2.runners[r].next])
                          ELSE NoTask]
    /\ UNCHANGED <<clientVars, pass, registry, shareVars, passesLeft, opsLeft, failuresLeft>>

\* setCartItems(resetItems), setSelectedMods, the notice and the finally block.
Commit(resolved, resolvedDeps, expansion) ==
    /\ cartItems' = Merged(resolved, resolvedDeps)
    /\ selectedMods' = IF Len(expansion.items) > 0
                       THEN UpdatedSelectedMods(pass.selected, expansion.sel)
                       ELSE selectedMods
    /\ notice' = "done"
    /\ isResolving' = FALSE
    /\ pass' = [pass EXCEPT !.phase = "committed"]
                 @@ [resolved |-> resolved, expansion |-> expansion,
                     resolvedDeps |-> resolvedDeps,
                     out |-> cartItems', outSelected |-> selectedMods']
    /\ pool' = NoPool
    /\ task' = <<>>
    /\ UNCHANGED <<targetVersion, loader>>

\* The first runPool has returned: the dependency expansion, then either the
\* second runPool or the commit.
AfterMainPool ==
    /\ pass.phase = "main"
    /\ pool.worker = "resolveItem"
    /\ PoolAllDone(pool)
    /\ LET resolved == PoolReturn(pool)
           expansion == Expansion(resolved, pass.items, pass.selected, pass.target)
       IN  IF Len(expansion.items) > 0
           THEN /\ pass' = [pass EXCEPT !.phase = "deps"]
                             @@ [resolved |-> resolved, expansion |-> expansion]
                /\ pool' = PoolStart(expansion.items, ResolveLimit, "resolveItem")
                /\ task' = StartTasks(pool')
                /\ UNCHANGED clientVars
           ELSE Commit(resolved, <<>>, expansion)
    /\ UNCHANGED <<registry, shareVars, passesLeft, opsLeft, failuresLeft>>

\* The second runPool has returned.
AfterDepsPool ==
    /\ pass.phase = "deps"
    /\ pool.worker = "resolveItem"
    /\ PoolAllDone(pool)
    /\ Commit(pass.resolved, DependencyResults(pool, pass.expansion), pass.expansion)
    /\ UNCHANGED <<registry, shareVars, passesLeft, opsLeft, failuresLeft>>

\* ------------------------------------------------------------------ list handlers

\* The entry handleSelectSearchResult puts in front of the list.
SearchItem(slug, title, tv) ==
    [ id |-> slug, title |-> title, source |-> "Modrinth",
      currentVersion |-> "unknown", targetVersion |-> tv, status |-> "pending",
      paused |-> FALSE, lastSupportedVersion |-> Undefined, filename |-> Undefined,
      dependencies |-> <<>>, isDependency |-> FALSE, isCustom |-> FALSE ]

ListIds == {cartItems[i].id : i \in 1..Len(cartItems)}

\* The search hits the user can pick: the projects of the registry.
handleSelectSearchResult(slug) ==
    /\ opsLeft > 0
    /\ opsLeft' = opsLeft - 1
    /\ slug \in DOMAIN registry
    /\ IF \E i \in 1..Len(cartItems) : cartItems[i].id = slug
       THEN /\ notice' = "exists"
            /\ UNCHANGED cartItems
       ELSE /\ cartItems' = <<SearchItem(slug, registry[slug].title, targetVersion)>>
                              \o cartItems
            /\ notice' = "added"
    /\ UNCHANGED <<selectedMods, targetVersion, loader, isResolving, pass, pool, task,
                   registry, shareVars, passesLeft, failuresLeft>>

handleToggleSelection(id) ==
    /\ opsLeft > 0
    /\ opsLeft' = opsLeft - 1
    /\ id \in ListIds
    /\ selectedMods' = IF id \in selectedMods THEN selectedMods \ {id}
                       ELSE selectedMods \cup {id}
    /\ UNCHANGED <<cartItems, targetVersion, loader, isResolving, notice, pass, pool,
                   task, registry, shareVars, passesLeft, failuresLeft>>

handleRemove(id) ==
    /\ opsLeft > 0
    /\ opsLeft' = opsLeft - 1
    /\ id \in ListIds
    /\ cartItems' = SelectSeq(cartItems, LAMBDA item : item.id # id)
    /\ notice' = "removed"
    /\ UNCHANGED <<selectedMods, targetVersion, loader, isResolving, pass, pool, task,
                   registry, shareVars, passesLeft, failuresLeft>>

\* generateLocalId(): an id no registry project has.
LocalIds == {"local"}

\* The entry handleAddCustomItem puts in front of the list.
CustomItem(id, tv) ==
    [ SearchItem(id, "Custom mod", tv) EXCEPT !.source = "custom", !.status = "custom",
                                              !.currentVersion = "-", !.isCustom = TRUE ]
      @@ [note |-> "", customUrl |-> ""]

handleAddCustomItem(id) ==
    /\ opsLeft > 0
    /\ opsLeft' = opsLeft - 1
    /\ id \notin ListIds
    /\ cartItems' = <<CustomItem(id, targetVersion)>> \o cartItems
    /\ notice' = "custom added"
    /\ UNCHANGED <<selectedMods, targetVersion, loader, isResolving, pass, pool, task,
                   registry, shareVars, passesLeft, failuresLeft>>

\* handleTogglePause: paused is negated, the status becomes "pending" for an
\* entry that was paused and "paused" otherwise.
TogglePause(item) ==
    [item EXCEPT !.paused = ~item.paused,
                 !.status = IF item.paused THEN "pending" ELSE "paused"]

handleTogglePause(id) ==
    /\ opsLeft > 0
    /\ opsLeft' = opsLeft - 1
    /\ id \in ListIds
    /\ cartItems' = [i \in 1..Len(cartItems) |->
                        IF cartItems[i].id = id THEN TogglePause(cartItems[i])
                        ELSE cartItems[i]]
    /\ UNCHANGED <<selectedMods, targetVersion, loader, isResolving, notice, pass, pool,
                   task, registry, shareVars, passesLeft, failuresLeft>>

\* { ...item, note: value }
WithNote(item, value) ==
    [n \in DOMAIN item \cup {"note"} |-> IF n = "note" THEN value ELSE item[n]]

handleNoteChange(id, value) ==
    /\ opsLeft > 0
    /\ opsLeft' = opsLeft - 1
    /\ id \in ListIds
    /\ cartItems' = [i \in 1..Len(cartItems) |->
                        IF cartItems[i].id = id THEN WithNote(cartItems[i], value)
                        ELSE cartItems[i]]
    /\ UNCHANGED <<selectedMods, targetVersion, loader, isResolving, notice, pass, pool,
                   task, registry, shareVars, passesLeft, failuresLeft>>

\* onChange of the version select, onClick of a loader button.
setTargetVersion(tv) ==
    /\ opsLeft > 0
    /\ opsLeft' = opsLeft - 1
    /\ targetVersion' = tv
    /\ UNCHANGED <<cartItems, selectedMods, loader, isResolving, notice, pass, pool, task,
                   registry, shareVars, passesLeft, failuresLeft>>

setLoader(label) ==
    /\ opsLeft > 0
    /\ opsLeft' = opsLeft - 1
    /\ loader' = label
    /\ UNCHANGED <<cartItems, selectedMods, targetVersion, isResolving, notice, pass, pool,
                   task, registry, shareVars, passesLeft, failuresLeft>>

\* The entries of an imported file, after normalisation: a registry project
\* or an id the registry does not know, paused or not, custom by its flag, by
\* its source, by both or not at all.
ImportedEntries ==
    { [ SearchItem(id, id, "1.21.1") EXCEPT !.paused = paused, !.isCustom = isCustom,
                                           !.source = source, !.status = status ] :
        id \in {"a", "local"}, paused \in BOOLEAN, isCustom \in BOOLEAN,
        source \in {"Modrinth", "custom"}, status \in {"pending", "paused"} }

\* handleImportFile: the list becomes the normalised entries of the file.
handleImportFile(items) ==
    /\ opsLeft > 0
    /\ opsLeft' = opsLeft - 1
    /\ cartItems' = items
    /\ notice' = "imported"
    /\ UNCHANGED <<selectedMods, targetVersion, loader, isResolving, pass, pool, task,
                   registry, shareVars, passesLeft, failuresLeft>>

\* The entry handleAddItem puts in front of the list: info is what
\* fetchProjectInfoById returned, <<project>> or <<>> for {}. The title
\* defaults to the slug with its first letter in upper case, written as the
\* slug.
AddedItem(slug, info, tv) ==
    [ SearchItem(slug, IF info # <<>> /\ info[1].title # Undefined
                       THEN info[1].title ELSE slug, tv)
      EXCEPT !.currentVersion = IF info # <<>> /\ Len(info[1].game_versions) > 0
                                THEN info[1].game_versions[1] ELSE "unknown" ]

MaxAdds == 2       \* handleAddItem calls per behaviour

\* const exists = cartItems.some((item) => item.id === slug)
ExistsNever(items, slug) == FALSE
Exists(items, slug) == \E i \in 1..Len(items) : items[i].id = slug

\* handleAddItem up to await fetchProjectInfoById(slug): the Enter key and
\* the add button both call it. The closure holds targetVersion.
handleAddItem(slug) ==
    /\ Len(adds) < MaxAdds
    /\ IF Exists(cartItems, slug)
       THEN /\ notice' = "exists"
            /\ adds' = Append(adds, [slug |-> slug, target |-> targetVersion,
                                     pc |-> "returned"])
       ELSE /\ adds' = Append(adds, [slug |-> slug, target |-> targetVersion,
                                     pc |-> "await"])
            /\ UNCHANGED notice
    /\ UNCHANGED <<cartItems, selectedMods, targetVersion, loader, isResolving, pass, pool,
                   task, registry, passesLeft, opsLeft, failuresLeft, store, reqs, variant,
                   postsLeft, collisionsLeft, kvVars, exported, share, relayVars>>

\* fetchProjectInfoById has returned: setCartItems((items) => [entry, ...items]).
AddResponse(i) ==
    /\ i \in 1..Len(adds)
    /\ adds[i].pc = "await"
    /\ cartItems' = <<AddedItem(adds[i].slug, RegistryProject(adds[i].slug),
                                adds[i].target)>> \o cartItems
    /\ notice' = "added"
    /\ adds' = [adds EXCEPT ![i].pc = "added"]
    /\ UNCHANGED <<selectedMods, targetVersion, loader, isResolving, pass, pool,
                   task, registry, passesLeft, opsLeft, failuresLeft, store, reqs, variant,
                   postsLeft, collisionsLeft, kvVars, exported, share, relayVars>>

\* `${item.title}(該版本缺失)`: the title followed by the marker.
VersionMissing == "(version missing)"

PlaceholderTitleOnly(title) == <<title>>
Placeholder(title) == <<title, VersionMissing>>

\* selected.map((item) => item.filename ?? `${item.title}(該版本缺失)`)
ExportName(item) ==
    IF item.filename = Undefined THEN Placeholder(item.title) ELSE item.filename

\* handleDownloadSelected: confirmed is the user's answer to window.confirm.
handleDownloadSelected(confirmed) ==
    /\ opsLeft > 0
    /\ opsLeft' = opsLeft - 1
    /\ LET selected == SelectSeq(cartItems, LAMBDA item : item.id \in selectedMods)
       IN  IF Len(selected) = 0
           THEN notice' = "nothing selected" /\ UNCHANGED exported
           ELSE IF ~confirmed
           THEN UNCHANGED <<notice, exported>>
           ELSE /\ exported' = <<[i \in 1..Len(selected) |-> ExportName(selected[i])]>>
                /\ notice' = "downloaded"
    /\ UNCHANGED <<cartItems, selectedMods, targetVersion, loader, isResolving, pass, pool,
                   task, registry, passesLeft, failuresLeft, store, reqs, variant,
                   postsLeft, collisionsLeft, kvVars, adds, share, relayVars>>

\* ------------------------------------------------------------------ share codes

\* The routes in service: src/src/app/api/share-code/route.ts on the file
\* store ("file"), and the route on the share_codes table of src/src/lib/db.ts
\* ("sqlite"). A code is a sequence of characters. The store is the sequence
\* of its entries [code, payload] in the order find-by-hash meets them.

\* const alphabet = "ABCDEFGHIJKLMNOPQRSTUVWXYZ0123456789"
Alphabet ==
    << "A", "B", "C", "D", "E", "F", "G", "H", "I", "J", "K", "L", "M", "N", "O", "P",
       "Q", "R", "S", "T", "U", "V", "W", "X", "Y", "Z", "0", "1", "2", "3", "4", "5",
       "6", "7", "8", "9" >>

LowerCase ==
    << "a", "b", "c", "d", "e", "f", "g", "h", "i", "j", "k", "l", "m", "n", "o", "p",
       "q", "r", "s", "t", "u", "v", "w", "x", "y", "z" >>

\* randomBytes(8)
CodeLength == 8

\* while (getShareCode(code) && attempts < 100)
AttemptLimit == 100

MaxByte == 1       \* largest value, modulo the alphabet, of a random byte
MaxRequests == 2   \* POST calls per behaviour
MaxCollisions == 1 \* generated codes per behaviour that collide with a stored code

\* The upper-case form of each character: of a lower-case letter the letter
\* at its place in the alphabet, of any other character itself.
UpperOf ==
    [ch \in Range(LowerCase) \cup Range(Alphabet) |->
        IF ch \in Range(LowerCase)
        THEN Alphabet[CHOOSE k \in 1..Len(LowerCase) : LowerCase[k] = ch]
        ELSE ch]

\* String.prototype.toUpperCase, on the characters of a code.
toUpperCaseKeep(s) == s
toUpperCase(s) == [i \in 1..Len(s) |-> UpperOf[s[i]]]

\* The outcomes of randomBytes(8) the model draws: eight equal bytes.
RandomBytes ==
    {[i \in 1..CodeLength |-> b] : b \in (0..MaxByte) \cup {Len(Alphabet)}}

\* generateCode: code += alphabet[byte % alphabet.length], for each byte.
generateCode(bytes) ==
    [i \in 1..Len(bytes) |-> Alphabet[(bytes[i] % Len(Alphabet)) + 1]]

\* item.note, item.customUrl of an object that may lack the field.
Field(item, name) == IF name \in DOMAIN item THEN item[name] ELSE Undefined

\* typeof v === "string" ? v : ""
StringOrEmpty(v) == IF v = Undefined THEN "" ELSE v

\* The object both hash functions build for an item: id, title, isDependency,
\* isSelected, note, isCustom, customUrl. Boolean(item.isCustom) of a boolean
\* is the boolean.
NormalizedItemNoTick(item, isSelected) ==
    << item.id, item.title, item.isDependency, FALSE,
       StringOrEmpty(Field(item, "note")), item.isCustom,
       StringOrEmpty(Field(item, "customUrl")) >>
NormalizedItem(item, isSelected) ==
    << item.id, item.title, item.isDependency, isSelected,
       StringOrEmpty(Field(item, "note")), item.isCustom,
       StringOrEmpty(Field(item, "customUrl")) >>

\* computeHash: the digest of the JSON text of targetVersion, loader and the
\* projection of each item, in order; two texts have one digest exactly if
\* they are equal.
computeHash(body) ==
    << body.targetVersion, body.loader,
       [i \in 1..Len(body.items[1]) |->
           NormalizedItem(body.items[1][i], body.items[1][i].isSelected)] >>

\* computeContentHash of the page: the same text, isSelected taken from
\* selectedMods.
computeContentHash(tv, loaderId, items, selected) ==
    << tv, loaderId,
       [i \in 1..Len(items) |-> NormalizedItem(items[i], items[i].id \in selected)] >>

\* The record stored under a code; savedAt is the instant of the request,
\* counted in requests.
StoredPayloadNoHash(body, contentHash, savedAt) ==
    [ targetVersion |-> body.targetVersion, loader |-> body.loader,
      items |-> body.items[1], contentHash |-> <<>>, savedAt |-> savedAt ]
StoredPayload(body, contentHash, savedAt) ==
    [ targetVersion |-> body.targetVersion, loader |-> body.loader,
      items |-> body.items[1], contentHash |-> contentHash, savedAt |-> savedAt ]

StoreCodes(s) == {s[i].code : i \in 1..Len(s)}

\* store[code], getShareCode(code): <<payload>>, or <<>> when absent.
getShareCode(s, code) ==
    IF toUpperCase(code) \in StoreCodes(s)
    THEN <<s[CHOOSE i \in 1..Len(s) : s[i].code = toUpperCase(code)].payload>>
    ELSE <<>>

\* store[code] = payload in the object written back to the file: an existing
\* key keeps its place. saveShareCode: INSERT OR REPLACE removes the row of
\* the code and inserts a new one.
saveShareCodeAlone(v, s, code, payload) ==
    LET key == toUpperCase(code)
        entry == [code |-> key, payload |-> payload]
    IN  IF key \notin StoreCodes(s) THEN Append(s, entry) ELSE <<entry>>
saveShareCode(v, s, code, payload) ==
    LET key == toUpperCase(code)
        entry == [code |-> key, payload |-> payload]
    IN  IF key \notin StoreCodes(s) THEN Append(s, entry)
        ELSE IF v = "file"
        THEN [i \in 1..Len(s) |-> IF s[i].code = key THEN entry ELSE s[i]]
        ELSE Append(SelectSeq(s, LAMBDA e : e.code # key), entry)

\* for (const [code, payload] of Object.entries(store)) if (payload.contentHash
\* === contentHash) ...; findShareCodeByHash: SELECT id ... LIMIT 1. The first
\* code holding the hash, <<code>>, or <<>>.
findShareCodeByHashNone(s, contentHash) == <<>>
findShareCodeByHash(s, contentHash) ==
    LET hits == {i \in 1..Len(s) : s[i].payload.contentHash = contentHash}
    IN  IF hits = {} THEN <<>>
        ELSE <<s[CHOOSE i \in hits : \A j \in hits : i <= j].code>>

\* store[requestedCode].contentHash === contentHash
SameContentNever(payload, contentHash) == FALSE
SameContent(payload, contentHash) == payload.contentHash = contentHash

\* GET /api/share-code?code=...
GET(code) ==
    LET payload == getShareCode(store, toUpperCase(code))
    IN  [status |-> IF payload = <<>> THEN 404 ELSE 200, payload |-> payload]

Response(status, code, updated, error) ==
    [status |-> status, code |-> code, updated |-> updated, error |-> error]

\* A POST call: what it was sent, the store it read, where it stands, the
\* candidate code and the retries of its generation loop, the store it writes
\* and, once it has returned, its response and the store it left.
Request(body, seen, pc, candidate, attempts, local, response) ==
    [ body |-> body, seen |-> seen, pc |-> pc, candidate |-> candidate,
      attempts |-> attempts, local |-> local, response |-> response ]

\* !body || !body.items || !body.targetVersion || !body.loader
MissingPayloadItemsOnly(body) == body.items = <<>>
MissingPayload(body) ==
    body.items = <<>> \/ body.targetVersion = "" \/ body.loader = ""

\* body.code?.toUpperCase()
RequestedCode(body) ==
    IF body.code = <<>> THEN <<>> ELSE <<toUpperCase(body.code[1])>>

\* The call stores the payload under the code and answers: on the table at
\* once, on the file after writeStore.
StoreAndAnswer(v, body, seen, n, code, attempts, updated) ==
    LET payload == StoredPayload(body, computeHash(body), n)
        local == saveShareCode(v, seen, code, payload)
    IN  Request(body, seen, IF v = "file" THEN "writing" ELSE "done", code, attempts,
                local, Response(200, <<toUpperCase(code)>>, updated, ""))

\* POST from the body to the first await after the store was read, or to the
\* generation loop: n is the instant of the call, first the first candidate.
PostStart(v, body, seen, n, first) ==
    LET contentHash == computeHash(body)
        requestedCode == RequestedCode(body)
        existing == IF requestedCode = <<>> THEN <<>>
                    ELSE getShareCode(seen, requestedCode[1])
        existingCode == findShareCodeByHash(seen, contentHash)
    IN  IF MissingPayload(body)
        THEN Request(body, seen, "done", <<>>, 0, seen,
                     Response(400, <<>>, FALSE, "Missing payload"))
        ELSE IF existing # <<>>
        THEN IF SameContent(existing[1], contentHash)
             THEN Request(body, seen, "done", <<>>, 0, seen,
                          Response(200, requestedCode, FALSE, ""))
             ELSE StoreAndAnswer(v, body, seen, n, requestedCode[1], 0, TRUE)
        ELSE IF existingCode # <<>>
        THEN Request(body, seen, "done", <<>>, 0, seen,
                     Response(200, existingCode, FALSE, ""))
        ELSE Request(body, seen, "generating", first, 0, seen,
                     Response(0, <<>>, FALSE, ""))

\* The generation loop of a call is running: nothing else runs meanwhile.
Generating == \E i \in 1..Len(reqs) : reqs[i].pc = "generating"

\* while (store[code]) on the file; while (getShareCode(code) && attempts <
\* 100) on the table.
LoopGoesOn(v, r) ==
    /\ getShareCode(r.seen, r.candidate) # <<>>
    /\ v = "sqlite" => r.attempts < AttemptLimit

\* The bodies the model sends: a list of one entry and the list with the
\* entry ticked, each without a code and with a code in either case; the
\* first list with another statusTone and the code in lower case; and a body
\* without target version.
ShareItem(isSelected, statusTone) ==
    [ id |-> "a", title |-> "Mod A", isDependency |-> FALSE, isSelected |-> isSelected,
      note |-> "", isCustom |-> FALSE, customUrl |-> "", statusTone |-> statusTone ]

SentCodes ==
    { <<>>, <<generateCode([i \in 1..CodeLength |-> 0])>>,
      <<[i \in 1..CodeLength |-> "a"]>> }

Bodies ==
    { [code |-> code, targetVersion |-> "1.21.1", loader |-> "fabric",
       items |-> <<<<item>>>>] :
        code \in SentCodes,
        item \in {ShareItem(FALSE, "accent"), ShareItem(TRUE, "accent")} }
    \cup { [code |-> <<[i \in 1..CodeLength |-> "a"]>>, targetVersion |-> "1.21.1",
            loader |-> "fabric", items |-> <<<<ShareItem(FALSE, "success")>>>>] }
    \cup { [code |-> <<>>, targetVersion |-> "", loader |-> "fabric",
            items |-> <<<<ShareItem(FALSE, "accent")>>>>] }

\* A generated code that collides with a stored code uses up one of the
\* collisions allowed.
DrawAllowed(r) ==
    (r.pc = "generating" /\ getShareCode(r.seen, r.candidate) # <<>>) =>
        IF collisionsLeft = <<>> THEN TRUE ELSE collisionsLeft[1] > 0

AfterDraw(r) ==
    IF r.pc = "generating" /\ getShareCode(r.seen, r.candidate) # <<>>
          /\ collisionsLeft # <<>>
    THEN <<collisionsLeft[1] - 1>> ELSE collisionsLeft

\* POST /api/share-code arrives and runs to its first await after the store
\* was read, to its generation loop, or to its response.
PostArrives(body, bytes) ==
    /\ postsLeft > 0
    /\ ~Generating
    /\ LET r == PostStart(variant, body, store, Len(reqs) + 1, generateCode(bytes))
       IN  /\ DrawAllowed(r)
           /\ collisionsLeft' = AfterDraw(r)
           /\ reqs' = Append(reqs, r)
           /\ store' = IF r.pc = "done" THEN r.local ELSE store
    /\ postsLeft' = postsLeft - 1
    /\ UNCHANGED <<variant, kvVars>>

\* A POST of some sender other than the page.
POST(body, bytes) == PostArrives(body, bytes) /\ UNCHANGED <<pageVars, listVars>>

\* code = generateCode() in the loop. The file route does not count; the
\* model counts for it, up to one more than the limit of the table route.
GenerateAgain(i, bytes) ==
    /\ i \in 1..Len(reqs)
    /\ reqs[i].pc = "generating"
    /\ LoopGoesOn(variant, reqs[i])
    /\ reqs' = [reqs EXCEPT ![i].candidate = generateCode(bytes),
                            ![i].attempts = IF @ > AttemptLimit THEN @ ELSE @ + 1]
    /\ DrawAllowed(reqs'[i])
    /\ collisionsLeft' = AfterDraw(reqs'[i])
    /\ UNCHANGED <<store, variant, postsLeft, kvVars, pageVars, listVars>>

\* The loop has ended: if (attempts >= 100) the table route answers 500;
\* otherwise the payload is stored under the candidate. Of the count, the
\* call's record keeps only a count that reached the limit.
GenerateEnd(i) ==
    /\ i \in 1..Len(reqs)
    /\ reqs[i].pc = "generating"
    /\ ~LoopGoesOn(variant, reqs[i])
    /\ LET r == reqs[i]
           r2 == IF variant = "sqlite" /\ r.attempts >= AttemptLimit
                 THEN Request(r.body, r.seen, "done", r.candidate, r.attempts, r.seen,
                              Response(500, <<>>, FALSE, "Failed to generate unique code"))
                 ELSE StoreAndAnswer(variant, r.body, r.seen, i, r.candidate,
                                     IF r.attempts >= AttemptLimit THEN r.attempts ELSE 0,
                                     FALSE)
       IN  /\ reqs' = [reqs EXCEPT ![i] = r2]
           /\ store' = IF r2.pc = "done" THEN r2.local ELSE store
    /\ UNCHANGED <<variant, postsLeft, collisionsLeft, kvVars, pageVars, listVars>>

\* await writeStore(store) of the file route has written the file.
writeStore(i) ==
    /\ i \in 1..Len(reqs)
    /\ reqs[i].pc = "writing"
    /\ ~Generating
    /\ store' = reqs[i].local
    /\ reqs' = [reqs EXCEPT ![i].pc = "done"]
    /\ UNCHANGED <<variant, postsLeft, collisionsLeft, kvVars, pageVars, listVars>>

\* ------------------------------------------------------------------ share codes, key-value database

\* The database of src/unnamed/part_001 when isVercelEnvironment(): the keys
\* share_code:<CODE> with their payloads, and the keys share_code_hash:<hash>
\* with their codes. setex replaces the value of its key; the expiry of the
\* keys (90 days) is not modelled.

MaxSaves == 2      \* saveShareCode calls on the key-value database per behaviour

\* database.setex(`share_code:${code.toUpperCase()}`, ttl, JSON.stringify(...))
SetexRecord(db, code, payload) ==
    [db EXCEPT !.records = {e \in @ : e.code # toUpperCase(code)}
                              \cup {[code |-> toUpperCase(code), payload |-> payload]}]

\* database.setex(`share_code_hash:${payload.contentHash}`, ttl, code.toUpperCase())
SetexHash(db, code, payload) ==
    [db EXCEPT !.hashes = {e \in @ : e.contentHash # payload.contentHash}
                             \cup {[contentHash |-> payload.contentHash,
                                    code |-> toUpperCase(code)]}]

\* getShareCode on the key-value database: <<payload>>, or <<>> for null.
KvGetShareCode(db, code) ==
    LET hits == {e \in db.records : e.code = toUpperCase(code)}
    IN  IF hits = {} THEN <<>> ELSE <<(CHOOSE e \in hits : TRUE).payload>>

\* findShareCodeByHash on the key-value database: <<code>>, or <<>> for null.
KvFindShareCodeByHash(db, contentHash) ==
    LET hits == {e \in db.hashes : e.contentHash = contentHash}
    IN  IF hits = {} THEN <<>> ELSE <<(CHOOSE e \in hits : TRUE).code>>

\* The codes and payloads saveShareCode is called with: a generated code or
\* a code in lower case, and either list with its fingerprint.
KvCodes == {generateCode(bytes) : bytes \in RandomBytes} \cup {[i \in 1..CodeLength |-> "a"]}

KvBodies == {b \in Bodies : b.code = <<>> /\ ~MissingPayload(b)}

\* saveShareCode(code, payload) is called and awaits its first setex.
KvSaveShareCode(code, body) ==
    /\ Len(saves) < MaxSaves
    /\ saves' = Append(saves, [code |-> code,
                               payload |-> StoredPayload(body, computeHash(body),
                                                         Len(saves) + 1),
                               pc |-> "record"])
    /\ UNCHANGED <<kv, store, reqs, variant, postsLeft, collisionsLeft, pageVars, listVars>>

\* The first setex has answered: the payload is under the code's key, or
\* the request failed and saveShareCode throws.
KvSetexRecord(i) ==
    /\ i \in 1..Len(saves)
    /\ saves[i].pc = "record"
    /\ \/ /\ kv' = SetexRecord(kv, saves[i].code, saves[i].payload)
          /\ saves' = [saves EXCEPT ![i].pc = "hash"]
          /\ UNCHANGED failuresLeft
       \/ /\ failuresLeft > 0
          /\ failuresLeft' = failuresLeft - 1
          /\ saves' = [saves EXCEPT ![i].pc = "thrown"]
          /\ UNCHANGED kv
    /\ UNCHANGED <<store, reqs, variant, postsLeft, collisionsLeft, pageVars, clientVars,
                   pass, pool, task, registry, passesLeft, opsLeft>>

\* The second setex has answered: the code is under the fingerprint's key,
\* or the request failed and saveShareCode throws.
KvSetexHash(i) ==
    /\ i \in 1..Len(saves)
    /\ saves[i].pc = "hash"
    /\ \/ /\ kv' = SetexHash(kv, saves[i].code, saves[i].payload)
          /\ saves' = [saves EXCEPT ![i].pc = "done"]
          /\ UNCHANGED failuresLeft
       \/ /\ failuresLeft > 0
          /\ failuresLeft' = failuresLeft - 1
          /\ saves' = [saves EXCEPT ![i].pc = "thrown"]
          /\ UNCHANGED kv
    /\ UNCHANGED <<store, reqs, variant, postsLeft, collisionsLeft, pageVars, clientVars,
                   pass, pool, task, registry, passesLeft, opsLeft>>

\* ------------------------------------------------------------------ share codes, the page

\* The items of the payload executeGenerateCode sends: the fields of the
\* entry, isSelected from selectedMods, note ?? "" and customUrl ?? "".
PayloadItem(item, selected) ==
    [ id |-> item.id, title |-> item.title, status |-> item.status,
      statusTone |-> Field(item, "statusTone"), filename |-> item.filename,
      isDependency |-> item.isDependency, isSelected |-> item.id \in selected,
      note |-> StringOrEmpty(Field(item, "note")), isCustom |-> item.isCustom,
      customUrl |-> StringOrEmpty(Field(item, "customUrl")) ]

Payload(code, tv, loaderId, items, selected) ==
    [ code |-> code, targetVersion |-> tv, loader |-> loaderId,
      items |-> <<[i \in 1..Len(items) |-> PayloadItem(items[i], selected)]>> ]

\* executeGenerateCode up to await fetch: the share button is disabled while
\* the list is empty or a call runs. With a share code shown and the
\* fingerprint it was issued for equal to that of the state, nothing is sent.
executeGenerateCode ==
    /\ share.pc = "idle"
    /\ Len(cartItems) > 0
    /\ LET loaderId == toLoaderId(loader)
           currentHash == computeContentHash(targetVersion, loaderId, cartItems,
                                             selectedMods)
       IN  IF share.currentShareCode # <<>> /\ share.currentShareCodeHash = <<currentHash>>
           THEN /\ notice' = "unchanged"
                /\ UNCHANGED share
           ELSE /\ postsLeft > 0
                /\ share' = [share EXCEPT
                      !.pc = "fetch",
                      !.call = <<[ currentHash |-> currentHash, req |-> 0,
                                   payload |-> Payload(share.currentShareCode,
                                                       targetVersion, loaderId,
                                                       cartItems, selectedMods) ]>>]
                /\ UNCHANGED notice
    /\ UNCHANGED <<cartItems, selectedMods, targetVersion, loader, isResolving, pass, pool,
                   task, registry, passesLeft, opsLeft, failuresLeft, store, reqs, variant,
                   postsLeft, collisionsLeft, kvVars, exported, adds, relayVars>>

\* The request of the page arrives at the route.
Fetch(bytes) ==
    /\ share.pc = "fetch"
    /\ PostArrives(share.call[1].payload, bytes)
    /\ share' = [share EXCEPT !.pc = "awaiting", !.call[1].req = Len(reqs) + 1]
    /\ UNCHANGED <<exported, adds, relayVars, listVars>>

\* fetch rejects: the request or its response is lost. catch: a notice.
FetchFails ==
    /\ share.pc \in {"fetch", "awaiting"}
    /\ failuresLeft > 0
    /\ failuresLeft' = failuresLeft - 1
    /\ notice' = "share failed"
    /\ share' = [share EXCEPT !.pc = "idle", !.call = <<>>]
    /\ UNCHANGED <<cartItems, selectedMods, targetVersion, loader, isResolving, pass, pool,
                   task, registry, passesLeft, opsLeft, store, reqs, variant, postsLeft,
                   collisionsLeft, kvVars, exported, adds, relayVars>>

\* The response has arrived: if (!response.ok) a notice; else the code of the
\* response and the fingerprint of the call are kept.
FetchResponse ==
    /\ share.pc = "awaiting"
    /\ reqs[share.call[1].req].pc = "done"
    /\ LET response == reqs[share.call[1].req].response
           after == IF response.status # 200
                    THEN share
                    ELSE [share EXCEPT
                            !.currentShareCode = response.code,
                            !.currentShareCodeHash = <<share.call[1].currentHash>>]
       IN  /\ share' = [after EXCEPT !.pc = "idle", !.call = <<>>]
           /\ notice' = IF response.status # 200 THEN "share failed" ELSE "shared"
    /\ UNCHANGED <<cartItems, selectedMods, targetVersion, loader, isResolving, pass, pool,
                   task, registry, passesLeft, opsLeft, failuresLeft, store, reqs, variant,
                   postsLeft, collisionsLeft, kvVars, exported, adds, relayVars>>

\* await writeStore(store) of the file route rejects: fs.writeFile has left
\* the file as it was, or cut short, and readStore then reads {} from it.
\* catch: 500 "Failed to save".
writeStoreFails(i, left) ==
    /\ i \in 1..Len(reqs)
    /\ reqs[i].pc = "writing"
    /\ ~Generating
    /\ failuresLeft > 0
    /\ failuresLeft' = failuresLeft - 1
    /\ left \in {store, <<>>}
    /\ store' = left
    /\ reqs' = [reqs EXCEPT ![i].pc = "done", ![i].local = left,
                            ![i].response = Response(500, <<>>, FALSE, "Failed to save")]
    /\ UNCHANGED <<variant, postsLeft, collisionsLeft, kvVars, pageVars, clientVars, pass,
                   pool, task, registry, passesLeft, opsLeft>>

\* ------------------------------------------------------------------ registry relay

\* Time is counted in minutes.
CACHE_TTL == 5
LONG_TTL == 60
MaxRelayCalls == 2     \* GET /api/modrinth calls per behaviour

\* generateCacheKey
generateCacheKey(type, q, projectId, gameVersion, loaderId) ==
    CASE type \in {"game_versions", "loaders"} -> <<type>>
      [] type = "search" -> <<"search", q>>
      [] type = "project" -> <<"project", projectId>>
      [] type = "versions" ->
            <<"versions", projectId, IF gameVersion = "" THEN "all" ELSE gameVersion,
              IF loaderId = "" THEN "all" ELSE loaderId>>
      [] OTHER -> <<>>

\* apiCache.get(cacheKey): <<entry>>, or <<>>.
CacheGet(apiCache, cacheKey) ==
    IF \E e \in apiCache : e.key = cacheKey
    THEN <<CHOOSE e \in apiCache : e.key = cacheKey>>
    ELSE <<>>

\* getCachedData, getCachedDataLong: <<data>> of an entry younger than ttl, or
\* <<>>; an older entry is deleted.
Cached(apiCache, cacheKey, now, ttl) ==
    LET cached == CacheGet(apiCache, cacheKey)
    IN  IF cached # <<>> /\ now - cached[1].timestamp < ttl THEN <<cached[1].data>>
        ELSE <<>>

AfterLookup(apiCache, cacheKey, now, ttl) ==
    IF Cached(apiCache, cacheKey, now, ttl) = <<>>
    THEN {e \in apiCache : e.key # cacheKey}
    ELSE apiCache

\* const isLongCacheable = type === "game_versions" || type === "loaders"
TtlOf(type) ==
    IF type \in {"game_versions", "loaders"} THEN LONG_TTL ELSE CACHE_TTL

\* setCachedData
setCachedData(apiCache, cacheKey, data, now) ==
    {e \in apiCache : e.key # cacheKey}
        \cup {[key |-> cacheKey, data |-> data, timestamp |-> now]}

\* The calls the model makes: the versions of a project for a target, the
\* same unfiltered, a search and the game versions.
RelayQueries ==
    { [type |-> "versions", q |-> "", projectId |-> "a", gameVersion |-> "1.21.1",
       loader |-> "fabric"],
      [type |-> "versions", q |-> "", projectId |-> "a", gameVersion |-> "", loader |-> ""],
      [type |-> "search", q |-> "sodium", projectId |-> "", gameVersion |-> "",
       loader |-> ""],
      [type |-> "game_versions", q |-> "", projectId |-> "", gameVersion |-> "",
       loader |-> ""] }

KeyOf(query) ==
    generateCacheKey(query.type, query.q, query.projectId, query.gameVersion, query.loader)

RelayCalls == Len(relay.pending) + Len(relay.log)

\* GET /api/modrinth up to its response from the cache, or to await fetch(url).
RelayGET(query) ==
    /\ RelayCalls < MaxRelayCalls
    /\ LET cacheKey == KeyOf(query)
           ttl == TtlOf(query.type)
           cachedData == Cached(relay.apiCache, cacheKey, relay.now, ttl)
           call == [key |-> cacheKey, arrived |-> relay.now]
       IN  relay' = [relay EXCEPT
              !.apiCache = AfterLookup(relay.apiCache, cacheKey, relay.now, ttl),
              !.pending = IF cachedData = <<>> THEN Append(@, call) ELSE @,
              !.log = IF cachedData = <<>> THEN @
                      ELSE Append(@, [key |-> cacheKey, arrived |-> relay.now,
                                      xCache |-> "HIT", status |-> 200,
                                      data |-> cachedData[1], cachedAt |-> <<>>])]
    /\ UNCHANGED <<listVars, store, reqs, variant, postsLeft, collisionsLeft, kvVars,
                   exported, adds, share, search, load>>

\* The upstream has answered the first call that waits: data with status 200,
\* or an error status. if (upstream.ok) setCachedData(cacheKey, data).
RelayUpstream(ok, data) ==
    /\ relay.pending # <<>>
    /\ LET call == Head(relay.pending)
       IN  relay' = [relay EXCEPT
              !.pending = Tail(@),
              !.apiCache = IF ok THEN setCachedData(@, call.key, data, relay.now) ELSE @,
              !.log = Append(@, [key |-> call.key, arrived |-> call.arrived,
                                 xCache |-> "MISS", status |-> IF ok THEN 200 ELSE 404,
                                 data |-> data,
                                 cachedAt |-> IF ok THEN <<relay.now>> ELSE <<>>])]
    /\ UNCHANGED <<listVars, store, reqs, variant, postsLeft, collisionsLeft, kvVars,
                   exported, adds, share, search, load>>

\* Time passes: the instants the model looks at are those around the two
\* durations.
Instants == {0, CACHE_TTL - 1, CACHE_TTL, LONG_TTL - 1, LONG_TTL}

Tick(instant) ==
    /\ instant > relay.now
    /\ relay' = [relay EXCEPT !.now = instant]
    /\ UNCHANGED <<listVars, store, reqs, variant, postsLeft, collisionsLeft, kvVars,
                   exported, adds, share, search, load>>

\* ------------------------------------------------------------------ search

MaxInputs == 3     \* changes of the search field per behaviour

\* data.hits of the relay's answer to a search: the hits of the query.
Hits(q) == <<q>>

\* handleUnifiedInput: the timer is cleared; an empty value empties the
\* results; any other value (no link) becomes the query and starts the timer.
handleUnifiedInput(value) ==
    /\ search.inputs < MaxInputs
    /\ search' = IF value = ""
                 THEN [search EXCEPT !.timer = <<>>, !.searchResults = <<>>,
                                     !.searchQuery = "", !.inputs = @ + 1]
                 ELSE [search EXCEPT !.timer = <<value>>, !.searchQuery = value,
                                     !.inputs = @ + 1]
    /\ UNCHANGED <<listVars, store, reqs, variant, postsLeft, collisionsLeft, kvVars,
                   exported, adds, share, relay, load>>

\* The timer fires after 300 ms: fetch type=search for its value.
SearchTimeout ==
    /\ search.timer # <<>>
    /\ search' = [search EXCEPT !.timer = <<>>, !.fetches = Append(@, search.timer[1])]
    /\ UNCHANGED <<listVars, store, reqs, variant, postsLeft, collisionsLeft, kvVars,
                   exported, adds, share, relay, load>>

\* A search response arrives: if (response.ok) setSearchResults(data.hits).
ResultsAfter(s, q, ok) ==
    IF ok THEN Hits(q) ELSE s.searchResults

SearchResponse(i, ok) ==
    /\ i \in 1..Len(search.fetches)
    /\ search' = [search EXCEPT
          !.searchResults = ResultsAfter(search, search.fetches[i], ok),
          !.fetches = [k \in 1..(Len(@) - 1) |-> IF k < i THEN @[k] ELSE @[k + 1]]]
    /\ UNCHANGED <<listVars, store, reqs, variant, postsLeft, collisionsLeft, kvVars,
                   exported, adds, share, relay, load>>

\* ------------------------------------------------------------------ page load

MaxLoads == 2      \* handleLoadByCode calls per behaviour

\* versions[0] of loadMetadata: the list always holds latestOverrideVersion,
\* and is sorted newest first.
latestOverrideVersion == "26.1"

\* loaderLabelMap[id] ?? id
LoaderLabel(id) ==
    CASE id = "fabric" -> "Fabric"
      [] id = "forge" -> "Forge"
      [] id = "neoforge" -> "NeoForge"
      [] id = "quilt" -> "Quilt"
      [] OTHER -> id

fallbackLoaders == <<"Fabric", "NeoForge", "Forge", "Quilt">>

\* What the page and the relay leave alone while the page loads.
loadFrame ==
    <<isResolving, pass, pool, task, registry, passesLeft, opsLeft, failuresLeft, store,
      reqs, variant, postsLeft, collisionsLeft, kvVars, exported, adds, relay, search>>

\* loadMetadata after await Promise.all: the newest version becomes the
\* target unless the target is locked; the loader is kept if it is among the
\* labels, and else becomes the first label.
TargetAfterMetadata(current, locked) ==
    IF locked THEN current ELSE latestOverrideVersion

loadMetadataResponse(versionsOk, loadersOk, labels) ==
    /\ load.metadata = "pending"
    /\ targetVersion' = IF versionsOk
                        THEN TargetAfterMetadata(targetVersion, load.isTargetLocked)
                        ELSE targetVersion
    /\ loader' = IF loadersOk /\ loader \notin Range(labels) THEN labels[1] ELSE loader
    /\ load' = [load EXCEPT !.metadata = "done"]
    /\ UNCHANGED <<cartItems, selectedMods, notice, share, loadFrame>>

\* One of the two fetches of loadMetadata rejects. catch: a notice.
loadMetadataFails ==
    /\ load.metadata = "pending"
    /\ notice' = "metadata failed"
    /\ load' = [load EXCEPT !.metadata = "done"]
    /\ UNCHANGED <<cartItems, selectedMods, targetVersion, loader, share, loadFrame>>

\* handleLoadByCode up to await fetch: called by the URL effect for ?s= and
\* when a share code is entered.
handleLoadByCode(code) ==
    /\ load.code = <<>>
    /\ load.loads < MaxLoads
    /\ load' = [load EXCEPT !.code = <<code>>, !.loads = @ + 1]
    /\ UNCHANGED <<cartItems, selectedMods, targetVersion, loader, notice, share, loadFrame>>

\* The items of a loaded list.
LoadedItem(item) ==
    [n \in DOMAIN item \cup {"dependencies"} |->
        IF n = "dependencies" THEN <<>> ELSE item[n]]

\* The response of GET /api/share-code has arrived.
LoadByCodeResponse ==
    /\ load.code # <<>>
    /\ load' = [load EXCEPT !.code = <<>>]
    /\ LET response == GET(load.code[1])
       IN  IF response.status # 200
           THEN /\ notice' = "code not found"
                /\ UNCHANGED <<cartItems, selectedMods, targetVersion, loader, share>>
           ELSE LET data == response.payload[1]
                    normalized == [i \in 1..Len(data.items) |-> LoadedItem(data.items[i])]
                    selectedIds == {normalized[i].id : i \in {k \in 1..Len(normalized) :
                                                                normalized[k].isSelected}}
                IN  /\ targetVersion' = data.targetVersion
                    /\ loader' = LoaderLabel(data.loader)
                    /\ cartItems' = normalized
                    /\ selectedMods' = selectedIds
                    /\ share' = [share EXCEPT
                          !.currentShareCode = <<toUpperCase(load.code[1])>>,
                          !.currentShareCodeHash =
                              <<computeContentHash(data.targetVersion, data.loader,
                                                   normalized, selectedIds)>>]
                    /\ notice' = "loaded"
    /\ UNCHANGED loadFrame

\* ------------------------------------------------------------------ runPool on its own

PoolValues == {"p", "q"}

RECURSIVE SeqsUpTo(_, _)
SeqsUpTo(S, n) ==
    IF n = 0 THEN {<<>>}
    ELSE LET shorter == SeqsUpTo(S, n - 1)
         IN  shorter \cup {Append(s, x) : s \in shorter, x \in S}

\* runPool(list, limit, Worker) is called.
RunPool ==
    /\ pool = NoPool
    /\ \E list \in SeqsUpTo(PoolValues, MaxLen), limit \in 1..MaxLimit :
          /\ pool' = PoolStart(list, limit, "Worker")
          /\ task' = StartTasks(pool')
    /\ UNCHANGED <<clientVars, pass, registry, shareVars, passesLeft, opsLeft, failuresLeft>>

\* A call of Worker settles: it resolves with its result, or it rejects, and
\* then the runner and with it runPool reject; the other runners go on.
WorkerSettle(r) ==
    /\ pool.worker = "Worker"
    /\ r \in 1..pool.limit
    /\ pool.runners[r].pc = "await"
    /\ task[r].stage = "work"
    /\ \/ /\ task' = [task EXCEPT ![r] = [stage |-> "ready", item |-> @.item,
                                          result |-> Worker(@.item)]]
          /\ UNCHANGED <<pool, failuresLeft>>
       \/ /\ failuresLeft > 0
          /\ failuresLeft' = failuresLeft - 1
          /\ task' = [task EXCEPT ![r] = NoTask]
          /\ pool' = [pool EXCEPT !.runners[r] = [pc |-> "rejected", next |-> @.next],
                                  !.rejected = TRUE]
    /\ UNCHANGED <<clientVars, pass, registry, shareVars, passesLeft, opsLeft>>

\* ------------------------------------------------------------------ specifications

Version(gameVersions, loaders, date, files, deps) ==
    [ game_versions |-> gameVersions, loaders |-> loaders, date_published |-> date,
      files |-> files, dependencies |-> deps ]

File(filename, primary) == [filename |-> filename, primary |-> primary]

Dep(id, type) == [project_id |-> id, dependency_type |-> type]

\* a and b both require x (b declares it twice), x requires z, and z has no
\* build for 1.21.1.
MainRegistry ==
    [ a |-> [ title |-> "Mod A", game_versions |-> <<"1.21.1">>,
              versions |-> << Version(<<"1.21.1">>, {"fabric"}, 2,
                                      <<File("a-sources.jar", FALSE), File("a.jar", TRUE)>>,
                                      <<Dep("x", "required"), Dep("z", "optional")>>) >> ],
      b |-> [ title |-> "Mod B", game_versions |-> <<"1.21.1">>,
              versions |-> << Version(<<"1.21.1">>, {"fabric"}, 2,
                                      <<File("b.jar", TRUE)>>,
                                      <<Dep("x", "required"), Dep("x", "required")>>) >> ],
      x |-> [ title |-> "Lib X", game_versions |-> <<"1.21.1">>,
              versions |-> << Version(<<"1.21.1">>, {"fabric"}, 2,
                                      <<File("x.jar", TRUE)>>,
                                      <<Dep("z", "required")>>) >> ],
      z |-> [ title |-> "Lib Z", game_versions |-> <<"1.16.5">>,
              versions |-> << Version(<<"1.12.2">>, {"fabric"}, 1, <<File("z0.jar", TRUE)>>, <<>>),
                              Version(<<"1.16.5">>, {"fabric"}, 2, <<File("z1.jar", TRUE)>>, <<>>) >> ] ]

\* The lists the user can have built by picking search hits, newest first, with
\* any of the entries ticked.
AddSlugs == {"a", "b", "x"}

StartLists ==
    {s \in SeqsUpTo(AddSlugs, MaxItems) : \A i, j \in 1..Len(s) : s[i] = s[j] => i = j}

\* The key-value database is empty and not in use.
NoKv == kv = [records |-> {}, hashes |-> {}] /\ saves = <<>>

\* The page has offered no file, awaits no add and shows no share code.
NoShare ==
    [currentShareCode |-> <<>>, currentShareCodeHash |-> <<>>, pc |-> "idle", call |-> <<>>]

NoRelay == [apiCache |-> {}, now |-> 0, pending |-> <<>>, log |-> <<>>]

NoSearch ==
    [searchQuery |-> "", searchResults |-> <<>>, timer |-> <<>>, fetches |-> <<>>, inputs |-> 0]

\* The metadata has been loaded, no share code is being loaded.
NoLoad == [metadata |-> "done", code |-> <<>>, isTargetLocked |-> FALSE, loads |-> 0]

NoPage ==
    /\ exported = <<>>
    /\ adds = <<>>
    /\ share = NoShare
    /\ relay = NoRelay
    /\ search = NoSearch
    /\ load = NoLoad

\* No share-code request is made.
NoSharing ==
    /\ store = <<>>
    /\ reqs = <<>>
    /\ variant = "file"
    /\ postsLeft = 0
    /\ collisionsLeft = <<0>>
    /\ NoKv
    /\ NoPage

\* The client state when the list is s and the ticked entries are sel.
InitList(s, sel, reg) ==
    /\ cartItems = [i \in 1..Len(s) |->
                       SearchItem(s[i], reg[s[i]].title, "1.21.1")]
    /\ selectedMods = sel
    /\ targetVersion = "1.21.1"
    /\ loader = "Fabric"
    /\ isResolving = FALSE
    /\ notice = ""
    /\ pass = NoPass
    /\ pool = NoPool
    /\ task = <<>>

Init ==
    /\ \E s \in StartLists, sel \in SUBSET AddSlugs :
          sel \subseteq Range(s) /\ InitList(s, sel, MainRegistry)
    /\ registry = MainRegistry
    /\ NoSharing
    /\ passesLeft = <<>>
    /\ opsLeft = 0
    /\ failuresLeft = 0

\* One entry, and registry responses that fail.
InitFail ==
    /\ \E slug \in AddSlugs, sel \in SUBSET AddSlugs :
          sel \subseteq {slug} /\ InitList(<<slug>>, sel, MainRegistry)
    /\ registry = MainRegistry
    /\ NoSharing
    /\ passesLeft = <<>>
    /\ opsLeft = 0
    /\ failuresLeft = MaxFailures

PassNext ==
    \/ HandleResolve
    \/ \E r \in 1..ResolveLimit : ProjectResponse(r)
    \/ \E r \in 1..ResolveLimit : VersionsResponse(r)
    \/ \E r \in 1..ResolveLimit : TitleResponse(r)
    \/ \E r \in 1..ResolveLimit : FallbackResponse(r)
    \/ \E r \in 1..ResolveLimit : RunnerResume(r)
    \/ AfterMainPool
    \/ AfterDepsPool

UserNext ==
    \/ \E slug \in AddSlugs : handleSelectSearchResult(slug)
    \/ \E id \in ListIds : handleToggleSelection(id)
    \/ \E id \in ListIds : handleRemove(id)

Spec == Init /\ [][PassNext]_vars

SpecFail == InitFail /\ [][PassNext]_vars

\* Three mods that each require the same four libraries; d4 has no build for
\* 1.21.1.
FanParents == {"f1", "f2", "f3"}

FanLibraries == {"d1", "d2", "d3", "d4"}

FanRegistry ==
    [id \in FanParents \cup FanLibraries |->
        [ title |-> id, game_versions |-> <<"1.21.1">>,
          versions |-> << Version(IF id = "d4" THEN <<"1.16.5">> ELSE <<"1.21.1">>,
                                  {"fabric"}, 1, <<File(id, TRUE)>>,
                                  IF id \in FanParents
                                  THEN <<Dep("d1", "required"), Dep("d2", "required"),
                                         Dep("d3", "required"), Dep("d4", "required")>>
                                  ELSE <<>>) >> ]]

\* One pass over the three mods.
InitFanout ==
    /\ InitList(<<"f1", "f2", "f3">>, {}, FanRegistry)
    /\ registry = FanRegistry
    /\ NoSharing
    /\ passesLeft = <<1>>
    /\ opsLeft = 0
    /\ failuresLeft = 0

SpecFanout == InitFanout /\ [][PassNext]_vars

\* The user picks, ticks and removes entries while passes run.
InitUser ==
    /\ InitList(<<>>, {}, MainRegistry)
    /\ registry = MainRegistry
    /\ NoSharing
    /\ passesLeft = <<>>
    /\ opsLeft = MaxOps
    /\ failuresLeft = 0

Next == PassNext \/ UserNext

SpecUser == InitUser /\ [][Next]_vars

\* The user imports a file of one entry while passes run.
NextImport ==
    \/ PassNext
    \/ \E e \in ImportedEntries : handleImportFile(<<e>>)

SpecImport == InitUser /\ [][NextImport]_vars

\* One entry, ticked or not, and user operations before, during and after
\* passes.
InitOne ==
    /\ \E slug \in AddSlugs, sel \in SUBSET AddSlugs :
          sel \subseteq {slug} /\ InitList(<<slug>>, sel, MainRegistry)
    /\ registry = MainRegistry
    /\ NoSharing
    /\ passesLeft = <<>>
    /\ opsLeft = MaxOps
    /\ failuresLeft = 0

NextExport ==
    \/ PassNext
    \/ \E confirmed \in BOOLEAN : handleDownloadSelected(confirmed)

SpecExport == InitOne /\ [][NextExport]_vars

\* The user picks, ticks and removes entries.
SpecEdit == InitOne /\ [][Next]_vars

\* The user adds entries by id and picks search hits while one pass runs.
InitAdd ==
    /\ \E s \in {<<>>, <<"b">>} : InitList(s, {}, MainRegistry)
    /\ registry = MainRegistry
    /\ NoSharing
    /\ passesLeft = <<1>>
    /\ opsLeft = MaxOps
    /\ failuresLeft = 0

AddIds == {"a", "x"}

NextAdd ==
    \/ PassNext
    \/ \E slug \in AddIds : handleAddItem(slug)
    \/ \E i \in 1..MaxAdds : AddResponse(i)
    \/ \E slug \in AddIds : handleSelectSearchResult(slug)

SpecAdd == InitAdd /\ [][NextAdd]_vars

\* The entries of the files the user imports before sharing: one entry, and
\* the entry with one of its fields changed, or with its status, tone and
\* file name changed.
HashEntries ==
    LET base == SearchItem("a", MainRegistry["a"].title, "1.21.1")
                  @@ [note |-> "", customUrl |-> "", statusTone |-> "accent"]
    IN  { base, [base EXCEPT !.id = "b"], [base EXCEPT !.title = "Other"],
          [base EXCEPT !.isDependency = TRUE], [base EXCEPT !.note = "n"],
          [base EXCEPT !.isCustom = TRUE], [base EXCEPT !.customUrl = "u"],
          [base EXCEPT !.statusTone = "success"], [base EXCEPT !.status = "resolved"],
          [base EXCEPT !.filename = "a.jar"],
          [base EXCEPT !.statusTone = "success", !.status = "resolved",
                       !.filename = "a.jar"] }

\* The user adds custom entries and picks search hits before, during and
\* after passes.
NextCustom ==
    \/ PassNext
    \/ \E id \in LocalIds : handleAddCustomItem(id)
    \/ \E slug \in AddSlugs : handleSelectSearchResult(slug)

SpecCustom == InitUser /\ [][NextCustom]_vars

\* The user picks, pauses, annotates and removes entries before, during and
\* after passes.
NextPause ==
    \/ PassNext
    \/ \E slug \in AddSlugs : handleSelectSearchResult(slug)
    \/ \E id \in ListIds : handleTogglePause(id)
    \/ \E id \in ListIds : handleNoteChange(id, "n")
    \/ \E id \in ListIds : handleRemove(id)

SpecPause == InitOne /\ [][NextPause]_vars

\* The user changes the target version or the loader and exports before,
\* during and after passes.
NextRetarget ==
    \/ PassNext
    \/ \E tv \in {"1.21.1", "1.20.1"} : setTargetVersion(tv)
    \/ \E label \in {"Fabric", "Forge"} : setLoader(label)
    \/ \E confirmed \in BOOLEAN : handleDownloadSelected(confirmed)

SpecRetarget == InitOne /\ [][NextRetarget]_vars

\* The page issues share codes for a list of one entry, ticked or not, which
\* the user edits in between; nothing fails.
InitHash ==
    /\ \E sel \in SUBSET {"a"} : InitList(<<"a">>, sel, MainRegistry)
    /\ registry = MainRegistry
    /\ passesLeft = <<0>>
    /\ opsLeft = MaxOps
    /\ failuresLeft = 0
    /\ store = <<>>
    /\ reqs = <<>>
    /\ variant = "file"
    /\ postsLeft = MaxRequests
    /\ collisionsLeft = <<MaxCollisions>>
    /\ NoKv
    /\ NoPage

EditNext ==
    \/ \E id \in ListIds : handleToggleSelection(id)
    \/ \E e \in HashEntries : handleImportFile(<<e>>)
    \/ \E tv \in {"1.21.1", "1.20.1"} : setTargetVersion(tv)
    \/ \E label \in {"Fabric", "Forge"} : setLoader(label)

IssueNext ==
    \/ executeGenerateCode
    \/ \E bytes \in RandomBytes : Fetch(bytes)
    \/ FetchResponse
    \/ \E i \in 1..MaxRequests : GenerateEnd(i)
    \/ \E i \in 1..MaxRequests : writeStore(i)

NextHash == EditNext \/ IssueNext

SpecHash == InitHash /\ [][NextHash]_vars

\* The same on either route, with requests, responses and writes that fail.
InitIssue ==
    /\ \E sel \in SUBSET {"a"} : InitList(<<"a">>, sel, MainRegistry)
    /\ registry = MainRegistry
    /\ passesLeft = <<0>>
    /\ opsLeft = MaxOps
    /\ failuresLeft = 1
    /\ store = <<>>
    /\ reqs = <<>>
    /\ variant \in {"file", "sqlite"}
    /\ postsLeft = MaxRequests
    /\ collisionsLeft = <<MaxCollisions>>
    /\ NoKv
    /\ NoPage

NextIssue ==
    \/ NextHash
    \/ FetchFails
    \/ \E i \in 1..MaxRequests, bytes \in RandomBytes : GenerateAgain(i, bytes)
    \/ \E i \in 1..MaxRequests, left \in {<<>>, store} : writeStoreFails(i, left)

SpecIssue == InitIssue /\ [][NextIssue]_vars

\* One project m whose versions are drawn: each is built for the target, for
\* an older game version named after its position, or for none, and has a
\* publish date or none.
OldGameVersions == <<"1.16.5", "1.12.2", "1.8.9", "1.7.10">>

DrawnVersion(kind, date, i) ==
    Version(CASE kind = "target" -> <<"1.21.1">>
              [] kind = "old" -> <<OldGameVersions[i]>>
              [] OTHER -> <<>>,
            {"fabric"}, date, <<File("m.jar", TRUE)>>, <<>>)

DrawnVersionLists ==
    UNION {[1..n -> {"target", "old", "none"} \X (0..MaxDate)] : n \in 0..MaxVersions}

ItemRegistry(draw) ==
    [ m |-> [ title |-> "Mod M", game_versions |-> <<"1.21.1">>,
              versions |-> [i \in 1..Len(draw) |->
                               DrawnVersion(draw[i][1], draw[i][2], i)] ] ]

InitItem ==
    /\ \E draw \in DrawnVersionLists :
          /\ registry = ItemRegistry(draw)
          /\ NoSharing
          /\ InitList(<<"m">>, {}, registry)
    /\ passesLeft = <<>>
    /\ opsLeft = 0
    /\ failuresLeft = 0

NextItem ==
    \/ HandleResolve
    \/ \E r \in 1..ResolveLimit : ProjectResponse(r)
    \/ \E r \in 1..ResolveLimit : VersionsResponse(r)
    \/ \E r \in 1..ResolveLimit : FallbackResponse(r)
    \/ \E r \in 1..ResolveLimit : RunnerResume(r)
    \/ AfterMainPool

SpecItem == InitItem /\ [][NextItem]_vars

InitPool ==
    /\ InitList(<<>>, {}, <<>>)
    /\ registry = <<>>
    /\ NoSharing
    /\ passesLeft = <<0>>
    /\ opsLeft = 0
    /\ failuresLeft = MaxFailures

NextPool ==
    \/ RunPool
    \/ \E r \in 1..MaxLimit + 1 : WorkerSettle(r)
    \/ \E r \in 1..MaxLimit + 1 : RunnerResume(r)

SpecPool == InitPool /\ [][NextPool]_vars

\* The stores the calls start from: the empty one, and the one an earlier
\* call has left, the first list under the first code.
StartStores ==
    LET first == [code |-> <<>>, targetVersion |-> "1.21.1", loader |-> "fabric",
                  items |-> <<<<ShareItem(FALSE, "accent")>>>>]
    IN  { <<>>,
          saveShareCode("file", <<>>, generateCode([i \in 1..CodeLength |-> 0]),
                        StoredPayload(first, computeHash(first), 0)) }

NoList ==
    /\ InitList(<<>>, {}, <<>>)
    /\ registry = <<>>
    /\ passesLeft = <<0>>
    /\ opsLeft = 0
    /\ failuresLeft = 0

\* Share-code calls on either route, few of their generated codes colliding.
InitShare ==
    /\ NoList
    /\ store \in StartStores
    /\ reqs = <<>>
    /\ variant \in {"file", "sqlite"}
    /\ postsLeft = MaxRequests
    /\ collisionsLeft = <<MaxCollisions>>
    /\ NoKv
    /\ NoPage

\* One share-code call, any number of its generated codes colliding.
InitGenerate ==
    /\ NoList
    /\ store \in StartStores
    /\ reqs = <<>>
    /\ variant \in {"file", "sqlite"}
    /\ postsLeft = 1
    /\ collisionsLeft = <<>>
    /\ NoKv
    /\ NoPage

NextShare ==
    \/ \E body \in Bodies, bytes \in RandomBytes : POST(body, bytes)
    \/ \E i \in 1..MaxRequests, bytes \in RandomBytes : GenerateAgain(i, bytes)
    \/ \E i \in 1..MaxRequests : GenerateEnd(i)
    \/ \E i \in 1..MaxRequests : writeStore(i)

SpecShare == InitShare /\ [][NextShare]_vars

SpecGenerate == InitGenerate /\ [][NextShare]_vars

\* saveShareCode calls on the key-value database, one of whose requests may
\* fail.
InitKv ==
    /\ InitList(<<>>, {}, <<>>)
    /\ registry = <<>>
    /\ passesLeft = <<0>>
    /\ opsLeft = 0
    /\ failuresLeft = 1
    /\ store = <<>>
    /\ reqs = <<>>
    /\ variant = "kv"
    /\ postsLeft = 0
    /\ collisionsLeft = <<0>>
    /\ NoKv
    /\ NoPage

NextKv ==
    \/ \E code \in KvCodes, body \in KvBodies : KvSaveShareCode(code, body)
    \/ \E i \in 1..MaxSaves : KvSetexRecord(i)
    \/ \E i \in 1..MaxSaves : KvSetexHash(i)

SpecKv == InitKv /\ [][NextKv]_vars

\* Bodies that lack items, the target version or the loader, sent with a
\* stored code and a list that differs from the stored one; and the same
\* body complete, with and without the code.
MalformedBodies ==
    LET whole == [code |-> <<generateCode([i \in 1..CodeLength |-> 0])>>,
                  targetVersion |-> "1.21.1", loader |-> "fabric",
                  items |-> <<<<ShareItem(TRUE, "accent")>>>>]
    IN  { [whole EXCEPT !.items = <<>>], [whole EXCEPT !.targetVersion = ""],
          [whole EXCEPT !.loader = ""] }

ValidateBodies ==
    MalformedBodies
    \cup {b \in Bodies : b.items = <<<<ShareItem(TRUE, "accent")>>>>
                          /\ \A n \in 1..Len(b.code) : b.code[n] = toUpperCase(b.code[n])}

NextValidate ==
    \/ \E body \in ValidateBodies, bytes \in RandomBytes : POST(body, bytes)
    \/ \E i \in 1..MaxRequests, bytes \in RandomBytes : GenerateAgain(i, bytes)
    \/ \E i \in 1..MaxRequests : GenerateEnd(i)
    \/ \E i \in 1..MaxRequests : writeStore(i)

SpecValidate == InitShare /\ [][NextValidate]_vars

\* The page is opened, with or without ?s=, on a store of one snapshot; share
\* codes are entered while the metadata is awaited and after.
LoadCode == generateCode([i \in 1..CodeLength |-> 0])

LoadStores ==
    { saveShareCode("file", <<>>, LoadCode, StoredPayload(body, computeHash(body), 0)) :
        body \in { [code |-> <<>>, targetVersion |-> tv, loader |-> loaderId,
                    items |-> <<<<ShareItem(sel, "accent")>>>>] :
                      tv \in {"1.21.1", "26.1"}, loaderId \in {"fabric", "forge"},
                      sel \in BOOLEAN } }

InitLoad ==
    /\ NoList
    /\ store \in LoadStores
    /\ reqs = <<>>
    /\ variant = "file"
    /\ postsLeft = 0
    /\ collisionsLeft = <<0>>
    /\ NoKv
    /\ exported = <<>>
    /\ adds = <<>>
    /\ share = NoShare
    /\ relay = NoRelay
    /\ search = NoSearch
    /\ \E code \in {<<>>, <<LoadCode>>} :
          load = [ metadata |-> "pending", code |-> code, isTargetLocked |-> FALSE,
                   loads |-> Len(code) ]

NextLoad ==
    \/ \E versionsOk, loadersOk \in BOOLEAN, labels \in {<<"Fabric">>, fallbackLoaders} :
          loadMetadataResponse(versionsOk, loadersOk, labels)
    \/ loadMetadataFails
    \/ \E code \in {LoadCode, [i \in 1..CodeLength |-> "a"], [i \in 1..CodeLength |-> "B"]} :
          handleLoadByCode(code)
    \/ LoadByCodeResponse

SpecLoad == InitLoad /\ [][NextLoad]_vars

\* Calls of the relay while time passes and the upstream changes its answers.
InitRelay ==
    /\ NoList
    /\ NoSharing

NextRelay ==
    \/ \E query \in RelayQueries : RelayGET(query)
    \/ \E ok \in BOOLEAN, data \in {"d1", "d2"} : RelayUpstream(ok, data)
    \/ \E instant \in Instants : Tick(instant)

SpecRelay == InitRelay /\ [][NextRelay]_vars

\* The user types in the search field while searches are answered.
SearchValues == {"", "so", "sod"}

NextSearch ==
    \/ \E value \in SearchValues : handleUnifiedInput(value)
    \/ SearchTimeout
    \/ \E i \in 1..MaxInputs, ok \in BOOLEAN : SearchResponse(i, ok)

SpecSearch == InitRelay /\ [][NextSearch]_vars

\* ------------------------------------------------------------------ claims: runPool

\* C1: when runPool returns, the array has the length of the input and its
\* element at index i is the worker's result for list[i], whatever the order
\* in which the worker calls completed.
C1_OutputOrder ==
    (pool.worker = "Worker" /\ PoolAllDone(pool)) =>
        /\ Len(PoolReturn(pool)) = Len(pool.list)
        /\ \A i \in 1..Len(pool.list) : PoolReturn(pool)[i] = Worker(pool.list[i])

\* A run has returned whose second item completed before its first, the two
\* holding different values.
C1_Witness ==
    /\ pool.worker = "Worker"
    /\ PoolAllDone(pool)
    /\ Len(pool.list) >= 2
    /\ pool.list[1] # pool.list[2]
    /\ pool.order[1] = 2

\* C2: no index is handed to the worker twice, no two runners hold the same
\* index, and when the run completes every index has been handed to the
\* worker exactly once.
C2_ExactlyOnce ==
    pool.worker = "Worker" =>
        /\ \A i \in 1..Len(pool.list) : pool.calls[i] <= 1
        /\ \A r1, r2 \in 1..pool.limit :
              (r1 # r2 /\ pool.runners[r1].pc = "await" /\ pool.runners[r2].pc = "await")
                  => pool.runners[r1].next # pool.runners[r2].next
        /\ PoolAllDone(pool) => \A i \in 1..Len(pool.list) : pool.calls[i] = 1

\* A run with more items than runners has completed: runners went round
\* their loop and claimed again.
C2_Witness ==
    /\ pool.worker = "Worker"
    /\ PoolAllDone(pool)
    /\ pool.limit >= 2
    /\ Len(pool.list) > pool.limit

\* ------------------------------------------------------------------ claims: handleResolve

\* C3: during a resolution pass at most 10 registry requests are in flight,
\* those of resolveItem and of its dependency-title lookups together.
C3_InFlightAtMostLimit ==
    isResolving => InFlight <= ResolveLimit

\* The ids of a list.
IdsOf(items) == {items[i].id : i \in 1..Len(items)}

\* The dependency ids an entry carries.
DepIds(item) == {item.dependencies[j].id : j \in 1..Len(item.dependencies)}

\* The dependency ids the entries of a list carry.
DeclaredBy(items) == UNION {DepIds(items[i]) : i \in 1..Len(items)}

\* The positions of the entries a committed pass appended.
AppendedAt == (Len(pass.items) + 1)..Len(pass.out)

\* C4: for each required-dependency id X declared by a resolved entry of a
\* pass over a list with unique ids, no entry is appended when X is already
\* in the list, and exactly one entry with id X is appended otherwise.
C4_DependencyDedup ==
    pass.phase = "committed" =>
        \A X \in DeclaredBy(pass.resolved) :
            Cardinality({k \in AppendedAt : pass.out[k].id = X})
                = IF X \in IdsOf(pass.items) THEN 0 ELSE 1

\* A pass has committed in which two entries declared the same dependency,
\* which was not in the list.
C4_Witness ==
    /\ pass.phase = "committed"
    /\ \E i, j \in 1..Len(pass.resolved) :
          /\ i # j
          /\ \E X \in DepIds(pass.resolved[i]) \cap DepIds(pass.resolved[j]) :
                X \notin IdsOf(pass.items) /\ X \in IdsOf(pass.out)

\* C5: an appended dependency is selected after the pass exactly if some entry
\* declaring it is selected.
C5_SelectionIsOrOverParents ==
    pass.phase = "committed" =>
        \A k \in AppendedAt :
            (pass.out[k].id \in pass.outSelected)
                <=> \E i \in 1..Len(pass.resolved) :
                       /\ pass.out[k].id \in DepIds(pass.resolved[i])
                       /\ pass.resolved[i].id \in pass.selected

\* C6: a pass appends only dependencies declared by the entries it started
\* from; what the appended entries declare in turn is not appended by it.
C6_OneLevel ==
    pass.phase = "committed" =>
        /\ IdsOf(pass.out) = IdsOf(pass.items) \cup DeclaredBy(pass.resolved)
        /\ \A k \in AppendedAt :
              \A Y \in DepIds(pass.out[k]) :
                  Y \notin (IdsOf(pass.items) \cup DeclaredBy(pass.resolved))
                      => Y \notin IdsOf(pass.out)

\* A later pass has appended a dependency declared by an entry that an
\* earlier pass had appended.
C6_Witness ==
    /\ pass.phase = "committed"
    /\ \E i \in 1..Len(pass.items), k \in AppendedAt :
          /\ pass.items[i].isDependency
          /\ pass.out[k].id \in DepIds(pass.items[i])
          /\ \A j \in 1..Len(pass.resolved) :
                pass.out[k].id \in DepIds(pass.resolved[j]) => pass.resolved[j].isDependency

\* C7: every entry a pass appends has isDependency = true and has been
\* through resolveItem: in the committed list none of them is pending.
C7_AppendedAreResolved ==
    pass.phase = "committed" =>
        \A k \in AppendedAt :
            /\ pass.out[k].isDependency
            /\ pass.out[k].status # "pending"
            /\ pass.out[k].status \in {"resolvable", "missing"}

\* A pass has committed an appended dependency that has a build for the
\* target but was resolved as missing, its filtered query having failed.
C7_Witness ==
    /\ pass.phase = "committed"
    /\ \E k \in AppendedAt :
          /\ pass.out[k].id = "x"
          /\ pass.out[k].isDependency
          /\ pass.out[k].status = "missing"

\* The filename of the file marked primary, or of the first file.
PrimaryFilename(version) ==
    LET marked == {i \in 1..Len(version.files) : version.files[i].primary}
    IN  IF marked # {}
        THEN version.files[CHOOSE i \in marked : \A j \in marked : i <= j].filename
        ELSE IF Len(version.files) > 0 THEN version.files[1].filename
        ELSE Undefined

\* C8: when the filtered query returns at least one version, resolveItem
\* returns status resolvable, the requested target, no lastSupportedVersion,
\* and the filename of the first version's primary file (of its first file
\* when none is marked primary).
C8_ResolvableResult ==
    \A r \in 1..Len(task) :
        (pool.worker = "resolveItem" /\ task[r].stage = "ready" /\ task[r].path = "hit") =>
            LET first == RegistryVersions(task[r].item.id, pass.target,
                                          toLoaderId(pass.loader))[1]
            IN  /\ task[r].result.status = "resolvable"
                /\ task[r].result.targetVersion = pass.target
                /\ task[r].result.lastSupportedVersion = Undefined
                /\ task[r].result.filename = PrimaryFilename(first)

\* C10: a transport failure of the filtered query never makes the pass fail.
C10_FilteredFailureNeverFailsPass ==
    ~(pass.phase = "failed" /\ pass.failedBy = "versions")

\* ------------------------------------------------------------------ claims: resolveItem

\* The game version of the version published last, the first of them in the
\* returned order when dates are equal or absent.
LatestPublishedGameVersion(versions) ==
    IF versions = <<>> THEN Undefined
    ELSE LET i == CHOOSE i \in 1..Len(versions) :
                    /\ \A j \in 1..Len(versions) :
                          versions[j].date_published <= versions[i].date_published
                    /\ \A j \in 1..(i - 1) :
                          versions[j].date_published < versions[i].date_published
         IN  IF Len(versions[i].game_versions) > 0 THEN versions[i].game_versions[1]
             ELSE Undefined

\* C9: when the filtered query returns no version and the unfiltered query
\* succeeds, resolveItem returns status missing, targetVersion "-", no
\* filename, and as lastSupportedVersion the game version of the version
\* published last, the first in the returned order on equal or absent dates.
C9_MissingResult ==
    \A r \in 1..Len(task) :
        (pool.worker = "resolveItem" /\ task[r].stage = "ready"
            /\ task[r].path = "empty-fallback") =>
            /\ task[r].result.status = "missing"
            /\ task[r].result.targetVersion = "-"
            /\ task[r].result.filename = Undefined
            /\ task[r].result.lastSupportedVersion
                  = LatestPublishedGameVersion(RegistryAllVersions(task[r].item.id))

\* resolveItem has returned missing for a project whose two versions carry
\* the same publish date and different game versions.
C9_Witness ==
    \E r \in 1..Len(task) :
        /\ pool.worker = "resolveItem"
        /\ task[r].stage = "ready"
        /\ task[r].path = "empty-fallback"
        /\ LET versions == RegistryAllVersions(task[r].item.id)
           IN  /\ Len(versions) >= 2
               /\ versions[1].date_published = versions[2].date_published
               /\ versions[1].date_published > 0
               /\ versions[1].game_versions # versions[2].game_versions
               /\ versions[1].game_versions # <<>>
               /\ task[r].result.lastSupportedVersion = versions[1].game_versions[1]

\* C11: when the filtered and the unfiltered query both fail, resolveItem
\* returns status missing, targetVersion "-", no filename and no
\* lastSupportedVersion, whatever the entry carried from an earlier pass.
C11_BothFailNoLastSupported ==
    \A r \in 1..Len(task) :
        (pool.worker = "resolveItem" /\ task[r].stage = "ready"
            /\ task[r].path = "notok-nofallback") =>
            /\ task[r].result.status = "missing"
            /\ task[r].result.targetVersion = "-"
            /\ task[r].result.filename = Undefined
            /\ task[r].result.lastSupportedVersion = Undefined

\* A worker call of resolveItem that has been started and not yet collected.
Called(r) == pool.worker = "resolveItem" /\ task[r].stage # "none"

\* C12: resolveItem of a paused entry returns the entry with every field
\* unchanged and never waits for a registry answer.
C12_PausedUnchanged ==
    \A r \in 1..Len(task) :
        (Called(r) /\ task[r].item.paused) =>
            /\ task[r].stage = "ready"
            /\ task[r].result = task[r].item
            /\ TaskInFlight(task[r]) = 0

\* resolveItem has returned for a paused entry that is a registry project, is
\* not custom and whose status is not "paused".
C12_Witness ==
    \E r \in 1..Len(task) :
        /\ Called(r)
        /\ task[r].item.paused
        /\ task[r].item.id \in DOMAIN registry
        /\ ~task[r].item.isCustom
        /\ task[r].item.source # "custom"
        /\ task[r].item.status = "pending"
        /\ task[r].stage = "ready"

\* An entry is custom by its flag or by its source.
IsCustomEntry(item) == item.isCustom \/ item.source = "custom"

\* What resolveItem returns for a custom entry.
CustomResult(t) ==
    /\ t.stage = "ready"
    /\ t.result.status = "custom"
    /\ t.result.targetVersion = "-"
    /\ t.result.currentVersion = "-"
    /\ t.result.filename = Undefined
    /\ TaskInFlight(t) = 0

\* C13 as stated: resolveItem of every custom entry has status custom,
\* targetVersion and currentVersion "-", no filename, and issues no registry
\* request.
C13_CustomAlways ==
    \A r \in 1..Len(task) :
        (Called(r) /\ IsCustomEntry(task[r].item)) => CustomResult(task[r])

\* C13, amended: the same for every custom entry that is not paused.
C13_CustomUnlessPaused ==
    \A r \in 1..Len(task) :
        (Called(r) /\ IsCustomEntry(task[r].item) /\ ~task[r].item.paused)
            => CustomResult(task[r])

\* resolveItem has returned for an entry that is custom by its source only
\* and is not paused.
C13_Witness ==
    \E r \in 1..Len(task) :
        /\ Called(r)
        /\ task[r].item.source = "custom"
        /\ ~task[r].item.isCustom
        /\ ~task[r].item.paused
        /\ task[r].stage = "ready"
        /\ task[r].result.status = "custom"

\* C14: with an unchanged registry, resolving an entry that is resolvable for
\* the pass's target again yields the same status, targetVersion and filename.
C14_Idempotent ==
    pass.phase = "committed" =>
        \A i \in 1..Len(pass.items) :
            (pass.items[i].status = "resolvable"
                /\ pass.items[i].targetVersion = pass.target) =>
                /\ pass.resolved[i].status = pass.items[i].status
                /\ pass.resolved[i].targetVersion = pass.items[i].targetVersion
                /\ pass.resolved[i].filename = pass.items[i].filename

\* A pass has committed over a list holding an entry that an earlier pass
\* had resolved with a filename.
C14_Witness ==
    /\ pass.phase = "committed"
    /\ \E i \in 1..Len(pass.items) :
          /\ pass.items[i].status = "resolvable"
          /\ pass.items[i].filename # Undefined
          /\ pass.resolved[i].filename = pass.items[i].filename

\* ------------------------------------------------------------------ claims: share codes

\* The record, if any, that the store a call read holds under the code the
\* call was sent.
ExistingFor(r) ==
    IF r.body.code = <<>> THEN <<>> ELSE getShareCode(r.seen, r.body.code[1])

\* A call that was sent a complete payload and has decided its answer.
Decided(r) == r.pc \in {"writing", "done"} /\ ~MissingPayload(r.body)

\* C15: a call sent an existing code whose stored fingerprint equals that of
\* the submitted state answers that code with updated = false and writes
\* nothing: the store it leaves is the store it read.
C15_SameContentNoWrite ==
    \A i \in 1..Len(reqs) :
        LET r == reqs[i]
        IN  (Decided(r) /\ ExistingFor(r) # <<>>
                /\ ExistingFor(r)[1].contentHash = computeHash(r.body)) =>
                /\ r.pc = "done"
                /\ r.response = Response(200, RequestedCode(r.body), FALSE, "")
                /\ r.local = r.seen

\* Such a call has returned for a payload that differs from the stored one
\* in a field outside the fingerprint.
C15_Witness ==
    \E i \in 1..Len(reqs) :
        LET r == reqs[i]
        IN  /\ r.pc = "done"
            /\ ~MissingPayload(r.body)
            /\ ExistingFor(r) # <<>>
            /\ ExistingFor(r)[1].contentHash = computeHash(r.body)
            /\ ExistingFor(r)[1].items # r.body.items[1]
            /\ r.response.status = 200

C17_SameContentSameCode ==
    \A i, j \in 1..Len(reqs) :
        LET first == reqs[i]
            second == reqs[j]
        IN  (i < j /\ first.pc = "done" /\ second.pc = "done"
                /\ first.body.code = <<>> /\ second.body.code = <<>>
                /\ first.response.status = 200
                /\ computeHash(first.body) = computeHash(second.body)
                /\ second.seen = first.local) =>
                /\ second.response.status = 200
                /\ second.response.code = first.response.code
                /\ second.local = second.seen

\* The first of two such calls generated a code and stored a record, and the
\* second has returned.
C17_Witness ==
    \E i, j \in 1..Len(reqs) :
        /\ i < j
        /\ reqs[i].pc = "done" /\ reqs[j].pc = "done"
        /\ reqs[i].body.code = <<>> /\ reqs[j].body.code = <<>>
        /\ computeHash(reqs[i].body) = computeHash(reqs[j].body)
        /\ Len(reqs[i].local) = Len(reqs[i].seen) + 1
        /\ reqs[j].seen = reqs[i].local
        /\ reqs[j].response.code = reqs[i].response.code

\* Two stored codes hold the same fingerprint.
SharedFingerprint(s) ==
    \E a, b \in 1..Len(s) : a # b /\ s[a].payload.contentHash = s[b].payload.contentHash

\* C18 as stated: in no state of the store do two codes hold records with
\* the same content fingerprint.
C18_NoSharedFingerprint == ~SharedFingerprint(store)

\* A call that stores a record under a code it generated.
Fresh(r) == Decided(r) /\ r.local # r.seen /\ ~r.response.updated

\* C18, amended: no call generates a code for content whose fingerprint the
\* store it read already holds, and two stored codes hold the same
\* fingerprint only after a call overwrote the record of an existing code.
C18_FreshOnlyForNewContent ==
    /\ \A i \in 1..Len(reqs) :
          Fresh(reqs[i]) =>
              \A k \in 1..Len(reqs[i].seen) :
                  reqs[i].seen[k].payload.contentHash # computeHash(reqs[i].body)
    /\ SharedFingerprint(store) =>
          \E i \in 1..Len(reqs) : reqs[i].pc = "done" /\ reqs[i].response.updated

\* A call has stored new content under a code it generated beside a stored
\* record, and a later call has overwritten that record's neighbour with the
\* same content: two codes now hold one fingerprint.
C18_Witness ==
    /\ SharedFingerprint(store)
    /\ \E i, j \in 1..Len(reqs) :
          /\ i < j
          /\ Fresh(reqs[i]) /\ reqs[i].pc = "done" /\ Len(reqs[i].seen) >= 1
          /\ reqs[j].pc = "done" /\ reqs[j].response.updated
          /\ computeHash(reqs[i].body) = computeHash(reqs[j].body)

\* C19: the generation loop retries at most 100 times, and a call whose
\* retries are used up answers a generation error and stores nothing.
C19_BoundedRetries ==
    \A i \in 1..Len(reqs) :
        /\ reqs[i].attempts <= AttemptLimit
        /\ (reqs[i].pc = "done" /\ reqs[i].attempts >= AttemptLimit) =>
              /\ reqs[i].response.status = 500
              /\ reqs[i].local = reqs[i].seen

\* The lower-case form of each character.
LowerChar ==
    [ch \in Range(LowerCase) \cup Range(Alphabet) |->
        IF \E k \in 1..Len(LowerCase) : Alphabet[k] = ch
        THEN LowerCase[CHOOSE k \in 1..Len(LowerCase) : Alphabet[k] = ch]
        ELSE ch]

\* The lower-case spelling of a code.
LowerOf(code) == [i \in 1..Len(code) |-> LowerChar[code[i]]]

\* Spellings of a code: as it is, in lower case, with only its first
\* character in lower case.
Spellings(code) ==
    {code, LowerOf(code), [code EXCEPT ![1] = LowerChar[code[1]]]}

\* C20: every key of the store is in upper case; a lookup by any spelling of
\* a stored code answers the payload stored under it; and a call sent any
\* spelling of a stored code answers that code and changes no other record.
C20_CaseInsensitive ==
    /\ \A k \in 1..Len(store) :
          /\ \A n \in 1..Len(store[k].code) : store[k].code[n] \notin Range(LowerCase)
          /\ \A spelt \in Spellings(store[k].code) :
                GET(spelt) = [status |-> 200, payload |-> <<store[k].payload>>]
    /\ \A i \in 1..Len(reqs) :
          LET r == reqs[i]
          IN  (Decided(r) /\ r.body.code # <<>>) =>
                  \A k \in 1..Len(r.seen) :
                      LowerOf(r.body.code[1]) = LowerOf(r.seen[k].code) =>
                          /\ r.response.code = <<r.seen[k].code>>
                          /\ StoreCodes(r.local) = StoreCodes(r.seen)
                          /\ \A c \in StoreCodes(r.seen) \ {r.seen[k].code} :
                                getShareCode(r.local, c) = getShareCode(r.seen, c)

\* A call sent a stored code in lower case has overwritten the record of the
\* code, and a lookup in lower case finds what it stored.
C20_Witness ==
    \E i \in 1..Len(reqs) :
        LET r == reqs[i]
        IN  /\ r.pc = "done"
            /\ r.body.code # <<>>
            /\ r.response.updated
            /\ r.body.code[1] # r.response.code[1]
            /\ store = r.local
            /\ GET(r.body.code[1]).payload
                  = <<StoredPayload(r.body, computeHash(r.body), i)>>

\* ------------------------------------------------------------------ claims: validation, export, list invariants

\* The payload lacks items, the target version or the loader.
Lacks(body) == body.items = <<>> \/ body.targetVersion = "" \/ body.loader = ""

\* C21: a POST whose payload lacks items, targetVersion or loader answers
\* 400 with no code when it arrives, and leaves the store as it is: the step
\* in which it arrives does not change the store, and the call has no write
\* pending.
C21_MissingPayloadRejected ==
    [][\A i \in 1..Len(reqs') :
          Lacks(reqs'[i].body) =>
              /\ reqs'[i].pc = "done"
              /\ reqs'[i].response.status = 400
              /\ reqs'[i].response.code = <<>>
              /\ reqs'[i].local = reqs'[i].seen
              /\ i > Len(reqs) => store' = store]_vars

\* A call that lacks a field, names a stored code and carries a list other
\* than the stored one has been answered after an earlier call wrote the
\* store, and the store is as the earlier call left it.
C21_Witness ==
    \E i, j \in 1..Len(reqs) :
        /\ j < i
        /\ reqs[j].pc = "done" /\ reqs[j].local # reqs[j].seen
        /\ reqs[i].body \in MalformedBodies
        /\ reqs[i].response.status = 400
        /\ getShareCode(store, reqs[i].body.code[1]) # <<>>
        /\ store = reqs[j].local

\* C22 as stated: at every point each stored code holds a payload written
\* by one call, the fingerprint of that payload is in the index, and every
\* entry of the index names a code whose payload has that fingerprint.
C22_NeverHalfWritten ==
    /\ \A e \in kv.records :
          /\ \E i \in 1..Len(saves) : saves[i].payload = e.payload
          /\ KvFindShareCodeByHash(kv, e.payload.contentHash) # <<>>
    /\ \A h \in kv.hashes :
          /\ KvGetShareCode(kv, h.code) # <<>>
          /\ KvGetShareCode(kv, h.code)[1].contentHash = h.contentHash

\* The positions of the ticked entries of a list, in list order.
RECURSIVE TickedPositions(_, _, _)
TickedPositions(items, sel, i) ==
    IF i > Len(items) THEN <<>>
    ELSE (IF items[i].id \in sel THEN <<i>> ELSE <<>>)
             \o TickedPositions(items, sel, i + 1)

\* C24: the file handleDownloadSelected offers holds one string per ticked
\* entry, in list order: the entry's filename or, when it has none, its
\* title followed by the version-missing marker.
C24_ExportedList ==
    [][exported' # exported =>
          LET at == TickedPositions(cartItems, selectedMods, 1)
              out == exported'[1]
          IN  /\ Len(out) = Len(at)
              /\ \A k \in 1..Len(at) :
                    out[k] = IF cartItems[at[k]].filename # Undefined
                             THEN cartItems[at[k]].filename
                             ELSE <<cartItems[at[k]].title, "(version missing)">>]_vars

\* An exported file holds the filename of a resolvable entry followed by the
\* placeholder of a missing one.
C24_Witness ==
    /\ exported = << <<"x.jar", <<"Lib Z", "(version missing)">> >> >>
    /\ Len(cartItems) = 2
    /\ cartItems[2].status = "missing"

\* C25 as stated: every ticked id is the id of an entry of the list.
C25_SelectionWithinList == selectedMods \subseteq ListIds

\* C26 as stated: no two entries of the list have the same id.
C26_UniqueIds ==
    \A i, j \in 1..Len(cartItems) : cartItems[i].id = cartItems[j].id => i = j

\* The ids of the dependencies a committed pass appended.
AppendedIds(p) == {p.expansion.items[i].id : i \in 1..Len(p.expansion.items)}

\* C27 as stated: the commit of a pass removes no id from the selection, so
\* it undoes no tick made while the pass ran, and adds only ids of
\* dependencies it appended.
C27_SelectionSurvivesCommit ==
    [][(pass.phase \in {"main", "deps"} /\ pass'.phase = "committed") =>
          /\ selectedMods \subseteq selectedMods'
          /\ (selectedMods' \ selectedMods) \subseteq AppendedIds(pass')]_vars

\* C28: the step in which handleResolve ends in failure changes neither the
\* list nor the selection, and with no user operation in between they are
\* the list and the selection the pass started with.
C28_FailedPassKeepsList ==
    [][pass'.phase = "failed" =>
          /\ cartItems' = pass'.items /\ selectedMods' = pass'.selected
          /\ pass.phase # "failed" =>
                cartItems' = cartItems /\ selectedMods' = selectedMods]_vars

\* A pass over a list of two entries, the second appended by an earlier
\* pass, has failed.
C28_Witness ==
    /\ pass.phase = "failed"
    /\ Len(cartItems) = 2
    /\ cartItems[2].isDependency
    /\ cartItems[1].status = "resolvable"
    /\ ~isResolving

\* C30: a pass starts only while none is in flight, isResolving is set from
\* the start of a pass to its end, and a commit is the commit of the pass in
\* flight: between the start and the commit of a pass no other pass starts
\* or commits.
C30_PassesAreSerial ==
    [][/\ (/\ <<pool, task>>' # <<pool, task>>
           /\ pass'.phase = "main"
           /\ pool' = PoolStart(cartItems, ResolveLimit, "resolveItem")
           /\ task' = StartTasks(pool')) =>
              (~isResolving /\ pass.phase \notin {"main", "deps"})
       /\ isResolving' <=> pass'.phase \in {"main", "deps"}
       /\ (pass'.phase = "committed" /\ pass.phase # "committed") =>
              /\ pass.phase \in {"main", "deps"}
              /\ pass'.items = pass.items
              /\ pass'.resolved = PoolReturn(pool) \/ pass'.resolved = pass.resolved]_vars

\* A second pass, over the list a first pass left with a dependency
\* appended, is in flight.
C30_Witness ==
    /\ isResolving
    /\ pass.phase = "main"
    /\ \E i \in 1..Len(pass.items) : pass.items[i].isDependency
    /\ \E r \in 1..Len(task) : task[r].stage = "versions"

\* ------------------------------------------------------------------ claims: fingerprint, failed issue

\* The projected fields of an entry, a missing note or customUrl read as "".
CanonicalItem(item, isSelected) ==
    [ id |-> item.id, title |-> item.title, isDependency |-> item.isDependency,
      isSelected |-> isSelected,
      note |-> IF "note" \in DOMAIN item /\ item.note # Undefined THEN item.note ELSE "",
      isCustom |-> item.isCustom,
      customUrl |-> IF "customUrl" \in DOMAIN item /\ item.customUrl # Undefined
                    THEN item.customUrl ELSE "" ]

\* The canonical projection of the state of the page and of a request body.
ProjectionOfState ==
    [ targetVersion |-> targetVersion, loader |-> toLoaderId(loader),
      items |-> [i \in 1..Len(cartItems) |->
                    CanonicalItem(cartItems[i], cartItems[i].id \in selectedMods)] ]

ProjectionOfBody(body) ==
    [ targetVersion |-> body.targetVersion, loader |-> body.loader,
      items |-> [i \in 1..Len(body.items[1]) |->
                    CanonicalItem(body.items[1][i], body.items[1][i].isSelected)] ]

\* C23: the fingerprint depends on exactly the canonical projection. Any two
\* request bodies have the same computeHash exactly if they have the same
\* projection; the state of the page has the computeContentHash that is the
\* computeHash of an earlier request exactly if its projection is that of
\* the request, whatever the other fields; and the fingerprint a call of the
\* page computed is the one the route computes for its payload.
C23_FingerprintIsProjection ==
    /\ \A i, j \in 1..Len(reqs) :
          (ProjectionOfBody(reqs[i].body) = ProjectionOfBody(reqs[j].body))
             <=> (computeHash(reqs[i].body) = computeHash(reqs[j].body))
    /\ \A i \in 1..Len(reqs) :
          (ProjectionOfState = ProjectionOfBody(reqs[i].body))
             <=> (computeContentHash(targetVersion, toLoaderId(loader), cartItems,
                                     selectedMods) = computeHash(reqs[i].body))
    /\ share.call # <<>> =>
          share.call[1].currentHash = computeHash(share.call[1].payload)

\* A code was issued for the entry; a file with the entry under another
\* status, tone and file name was imported; the next call kept the code.
C23_Witness ==
    /\ Len(reqs) = 1
    /\ share.currentShareCode # <<>>
    /\ notice = "unchanged"
    /\ Len(cartItems) = 1
    /\ cartItems[1].status # reqs[1].body.items[1][1].status
    /\ cartItems[1].filename # reqs[1].body.items[1][1].filename
    /\ Field(cartItems[1], "statusTone") # reqs[1].body.items[1][1].statusTone

\* The store the call of the page found: the one its request read, or the
\* present one when the request has not arrived.
StoreBeforeCall ==
    IF share.call[1].req = 0 THEN store ELSE reqs[share.call[1].req].seen

\* C29: when a call of executeGenerateCode ends in failure (the response is
\* not OK, or fetch rejects), the page shows the share code it showed before,
\* and a lookup of that code returns the payload that was stored under it
\* before the request.
C29_FailedIssueKeepsCode ==
    [][ (share.pc # "idle" /\ share'.pc = "idle" /\ notice' = "share failed") =>
          /\ share'.currentShareCode = share.currentShareCode
          /\ share.currentShareCode # <<>> =>
                /\ getShareCode(store', share.currentShareCode[1]) # <<>>
                /\ getShareCode(store', share.currentShareCode[1])
                      = getShareCode(StoreBeforeCall, share.currentShareCode[1]) ]_vars

\* ------------------------------------------------------------------ claims: custom entries, file names

\* C31: every custom entry of the list has targetVersion and currentVersion
\* "-", and no registry request is in flight for a custom entry.
C31_CustomSentinel ==
    /\ \A i \in 1..Len(cartItems) :
          IsCustomEntry(cartItems[i]) =>
              cartItems[i].targetVersion = "-" /\ cartItems[i].currentVersion = "-"
    /\ \A r \in 1..Len(task) :
          (Called(r) /\ IsCustomEntry(task[r].item)) => TaskInFlight(task[r]) = 0

ArrivedWithin(i, j, ttl) ==
    /\ relay.log[i].cachedAt # <<>>
    /\ relay.log[j].key = relay.log[i].key
    /\ relay.log[i].cachedAt[1] < relay.log[j].arrived
    /\ relay.log[j].arrived < relay.log[i].cachedAt[1] + ttl

\* C33: a call for a version list that arrives within one hour of a response
\* for the same (projectId, gameVersion, loader) being cached is served from
\* the cache, and so is a search that arrives within five minutes of a
\* response for the same query being cached.
C33_ServedFromCache ==
    \A i, j \in 1..Len(relay.log) :
        /\ (relay.log[j].key[1] = "versions" /\ ArrivedWithin(i, j, LONG_TTL))
              => relay.log[j].xCache = "HIT"
        /\ (relay.log[j].key[1] = "search" /\ ArrivedWithin(i, j, CACHE_TTL))
              => relay.log[j].xCache = "HIT"

\* ------------------------------------------------------------------ claims: search

\* C34: the displayed results belong to the most recently entered query: once
\* the results of the query in the field are displayed, they stay until the
\* field changes, whichever responses arrive.
C34_ResultsOfLatestQuery ==
    [][ (search.searchQuery # "" /\ search.searchResults = Hits(search.searchQuery)
         /\ search'.searchQuery = search.searchQuery)
           => search'.searchResults = search.searchResults ]_vars

\* ------------------------------------------------------------------ claims: edits during a pass

\* C35: the commit of a pass keeps the changes the user made to the list
\* while the pass ran: an entry added since the pass started is in the
\* committed list, an entry removed since is not, and every entry still there
\* keeps the note and the pause it had just before the commit.
C35_EditsSurviveCommit ==
    [][ (pass.phase # "committed" /\ pass'.phase = "committed") =>
          /\ (ListIds \ IdsOf(pass.items)) \subseteq IdsOf(cartItems')
          /\ (IdsOf(pass.items) \ ListIds) \cap IdsOf(cartItems') = {}
          /\ \A i \in 1..Len(cartItems), j \in 1..Len(cartItems') :
                cartItems[i].id = cartItems'[j].id =>
                    /\ Field(cartItems'[j], "note") = Field(cartItems[i], "note")
                    /\ cartItems'[j].paused = cartItems[i].paused ]_vars

\* ------------------------------------------------------------------ claims: concurrent issues, hash index, retries

\* C36: on the file, every code a call has returned with success stays
\* retrievable by lookup.
C36_NoLostRecord ==
    variant = "file" =>
        \A i \in 1..Len(reqs) :
            (reqs[i].pc = "done" /\ reqs[i].response.status = 200) =>
                getShareCode(store, reqs[i].response.code[1]) # <<>>

\* C37: on the key-value database, once every saveShareCode call has
\* returned, findShareCodeByHash(h) returns only a code whose stored payload
\* has the contentHash h.
C37_HashIndexCurrent ==
    (\A i \in 1..Len(saves) : saves[i].pc = "done") =>
        \A s \in 1..Len(saves) :
            LET h == saves[s].payload.contentHash
                code == KvFindShareCodeByHash(kv, h)
            IN  code # <<>> =>
                    /\ KvGetShareCode(kv, code[1]) # <<>>
                    /\ KvGetShareCode(kv, code[1])[1].contentHash = h

\* C38: once every response has arrived, the target version and the loader
\* of a list loaded from a share code are those of the snapshot stored under
\* the code.
C38_LoadedTargetAndLoader ==
    (share.currentShareCode # <<>> /\ load.code = <<>> /\ load.metadata = "done") =>
        LET snapshot == getShareCode(store, share.currentShareCode[1])[1]
        IN  /\ targetVersion = snapshot.targetVersion
            /\ toLoaderId(loader) = snapshot.loader

\* C39: every entry of the list with status resolvable has the target version
\* of the list and the file name the registry gives for the list's target
\* version and loader.
C39_ResolvableForCurrentTarget ==
    \A i \in 1..Len(cartItems) :
        (cartItems[i].status = "resolvable" /\ cartItems[i].id \in DOMAIN registry) =>
            LET versions == RegistryVersions(cartItems[i].id, targetVersion,
                                             toLoaderId(loader))
            IN  /\ cartItems[i].targetVersion = targetVersion
                /\ versions # <<>>
                /\ cartItems[i].filename = FirstFilename(versions[1])

\* C40: on the table route, a call answers with the generation error only if
\* its last candidate collides with a stored code as well, and a call that
\* stores under a generated code stores under a code that was unused.
C40_ErrorOnlyIfAllCollide ==
    variant = "sqlite" =>
        \A i \in 1..Len(reqs) :
            /\ (reqs[i].pc = "done" /\ reqs[i].response.status = 500) =>
                  getShareCode(reqs[i].seen, reqs[i].candidate) # <<>>
            /\ (reqs[i].pc = "done" /\ reqs[i].response.status = 200
                 /\ reqs[i].candidate # <<>> /\ ~reqs[i].response.updated) =>
                  getShareCode(reqs[i].seen, reqs[i].candidate) = <<>>

====
